---- MODULE Spec2Model ----
(***************************************************************************)
(* A model of the one-time-password package otp (src/otp.go): the pure    *)
(* code engine ComputeCode, the OTPConfig object with its replay guard    *)
(* UsedCodes and its ScratchCodes, and the operations Authenticate, GC,   *)
(* Save and Load, driven by a wall clock that never runs backwards         *)
(* (Spec); the setting up of an object with New and ProvisionURI           *)
(* (SpecSetup); calls of ComputeCode (SpecCompute); and Authenticate,      *)
(* GC and Save called by two goroutines at once (SpecRace).                *)
(*                                                                         *)
(* Go strings are modelled as sequences of one-character strings, so that *)
(* len(password), password[0] and the digit-by-digit work of strconv.Atoi *)
(* and fmt.Sprintf("%06d") are computed and not assumed.                  *)
(***************************************************************************)
EXTENDS Integers, Sequences, FiniteSets, TLC

(***************************************************************************)
(* Bounds of the model.                                                    *)
(***************************************************************************)
\* how many times the clock advances by TickSeconds in one behaviour
MaxTicks == 2
\* how many scratch codes New is asked for at most
MaxScratchCodes == 2

(***************************************************************************)
(* Program constants.                                                      *)
(***************************************************************************)
\* the TOTP step: time.Now().UTC().Unix() / 30
StepSeconds == 30
\* the two password lengths Authenticate dispatches on
TotpLen == 6
ScratchLen == 8
\* (... % 1000000) in ComputeCode
CodeModulus == 1000000

\* the error values of the package; "nil" stands for a nil error
ErrInvalidCode == "ErrInvalidCode"
ErrInvalidSecret == "ErrInvalidSecret"
ErrInvalidChallenge == "ErrInvalidChallenge"
Nil == "nil"

(***************************************************************************)
(* Go's integer arithmetic.                                                *)
(***************************************************************************)
\* Go's / on integers truncates toward zero
GoDiv(a, b) ==
  IF a >= 0 THEN a \div b ELSE -((-a) \div b)

(***************************************************************************)
(* Characters: the byte value of each character the model uses.           *)
(***************************************************************************)
DigitChars == <<"0", "1", "2", "3", "4", "5", "6", "7", "8", "9">>

UpperChars ==
  <<"A", "B", "C", "D", "E", "F", "G", "H", "I", "J", "K", "L", "M",
    "N", "O", "P", "Q", "R", "S", "T", "U", "V", "W", "X", "Y", "Z">>

LowerChars ==
  <<"a", "b", "c", "d", "e", "f", "g", "h", "i", "j", "k", "l", "m",
    "n", "o", "p", "q", "r", "s", "t", "u", "v", "w", "x", "y", "z">>

OtherChars == <<" ", "&", "+", "-", ".", "=", "@", "_", "~">>

OtherCodes == <<32, 38, 43, 45, 46, 61, 64, 95, 126>>

\* the ASCII code of each character: '0' is 48, 'A' is 65, 'a' is 97
AsciiCodes ==
  [c \in {DigitChars[i] : i \in 1..10} |->
     47 + (CHOOSE i \in 1..10 : DigitChars[i] = c)]
  @@ [c \in {UpperChars[i] : i \in 1..26} |->
        64 + (CHOOSE i \in 1..26 : UpperChars[i] = c)]
  @@ [c \in {LowerChars[i] : i \in 1..26} |->
        96 + (CHOOSE i \in 1..26 : LowerChars[i] = c)]
  @@ [c \in {OtherChars[i] : i \in 1..Len(OtherChars)} |->
        OtherCodes[CHOOSE i \in 1..Len(OtherChars) : OtherChars[i] = c]]

Ord(c) == AsciiCodes[c]

(***************************************************************************)
(* strconv.Atoi, as Authenticate uses it on the password: an optional     *)
(* sign, then one or more decimal digits and nothing else.  The passwords *)
(* of the model are shorter than 19 characters, so no range error arises. *)
(***************************************************************************)
IsDigit(c) == Ord(c) >= 48 /\ Ord(c) <= 57

RECURSIVE DigitsValue(_, _)
\* n = n*10 + (ch - '0') over the characters of s, starting from acc
DigitsValue(s, acc) ==
  IF s = <<>> THEN acc
  ELSE DigitsValue(Tail(s), acc * 10 + (Ord(Head(s)) - 48))

Atoi(s) ==
  IF s = <<>> THEN [val |-> 0, err |-> "ErrSyntax"]
  ELSE LET signed == Head(s) = "-" \/ Head(s) = "+"
           body == IF signed THEN Tail(s) ELSE s
       IN IF body = <<>> \/ \E i \in 1..Len(body) : ~IsDigit(body[i])
            THEN [val |-> 0, err |-> "ErrSyntax"]
          ELSE [val |-> IF Head(s) = "-" THEN -DigitsValue(body, 0)
                        ELSE DigitsValue(body, 0),
                err |-> Nil]

(***************************************************************************)
(* fmt.Sprintf("%06d", n) for 0 <= n < 1000000: six digits, zero padded.   *)
(***************************************************************************)
\* a variant of Sprintf06d: "%d", which writes no leading zeros
SprintfD(n) ==
  LET padded == [i \in 1..6 |-> DigitChars[((n \div (10 ^ (6 - i))) % 10) + 1]]
      first == IF \E i \in 1..6 : padded[i] # "0"
                 THEN CHOOSE i \in 1..6 :
                        padded[i] # "0" /\ \A j \in 1..(i - 1) : padded[j] = "0"
               ELSE 6
  IN SubSeq(padded, first, 6)

Sprintf06d(n) ==
  [i \in 1..6 |-> DigitChars[((n \div (10 ^ (6 - i))) % 10) + 1]]

(***************************************************************************)
(* base32.StdEncoding.DecodeString on an unpadded secret: every character *)
(* must be of the alphabet A-Z2-7 and the length a multiple of 8; each     *)
(* group of 8 characters (5 bits each) gives 5 bytes.                      *)
(***************************************************************************)
IsBase32Char(c) ==
  (Ord(c) >= 65 /\ Ord(c) <= 90) \/ (Ord(c) >= 50 /\ Ord(c) <= 55)

Base32Value(c) ==
  IF Ord(c) >= 65 THEN Ord(c) - 65 ELSE Ord(c) - 50 + 26

Base32Quantum(v) ==
  << v[1] * 8 + v[2] \div 4,
     (v[2] % 4) * 64 + v[3] * 2 + v[4] \div 16,
     (v[4] % 16) * 16 + v[5] \div 2,
     (v[5] % 2) * 128 + v[6] * 4 + v[7] \div 8,
     (v[7] % 8) * 32 + v[8] >>

RECURSIVE Base32Bytes(_)
Base32Bytes(s) ==
  IF s = <<>> THEN <<>>
  ELSE Base32Quantum([i \in 1..8 |-> Base32Value(s[i])])
         \o Base32Bytes(SubSeq(s, 9, Len(s)))

Base32Decode(s) ==
  IF Len(s) % 8 # 0 \/ \E i \in 1..Len(s) : ~IsBase32Char(s[i])
    THEN [bytes |-> <<>>, err |-> "CorruptInput"]
  ELSE [bytes |-> Base32Bytes(s), err |-> Nil]

(***************************************************************************)
(* The secrets of the model.  TestSecret is the secret of the test suite;  *)
(* TwinSecret is a secret as New makes them (16 characters for 10 random   *)
(* bytes) whose steps 5 and 7 have the same code; BadSecret is the secret  *)
(* "x" of TestProvisionURI, which is no base-32 text.                      *)
(***************************************************************************)
TestSecret ==
  <<"2", "S", "H", "3", "V", "3", "G", "D", "W", "7", "Z", "N", "M", "G", "Y", "E">>

TwinSecret ==
  <<"E", "P", "O", "X", "K", "P", "L", "R", "V", "7", "C", "S", "I", "P", "P", "4">>

BadSecret == <<"x">>

Secrets == {TestSecret, TwinSecret, BadSecret}

(***************************************************************************)
(* HMAC-SHA1 (crypto/hmac, crypto/sha1) is library code: the 20-byte sums  *)
(* it yields for the key of each secret over the 8-byte big-endian         *)
(* challenge, for every challenge the model can present.                   *)
(***************************************************************************)
TestKey == <<212, 143, 186, 236, 195, 183, 242, 214, 27, 4>>

TwinKey == <<35, 221, 117, 61, 113, 175, 197, 36, 61, 252>>

TestKeySums ==
  (0 :> <<130,250,230,82,111,17,90,124,139,15,48,63,101,198,221,181,74,65,75,71>> @@
   1 :> <<237,202,182,69,208,137,59,113,124,184,146,109,239,90,5,49,65,83,116,6>> @@
   2 :> <<33,219,79,164,199,175,13,8,211,49,20,85,153,132,81,112,13,205,118,45>> @@
   3 :> <<143,142,160,215,28,45,87,7,134,28,138,244,143,128,118,1,65,78,40,163>> @@
   4 :> <<50,179,175,25,213,19,17,199,125,1,111,85,169,128,62,251,180,233,254,135>> @@
   5 :> <<197,149,25,76,244,160,184,12,117,210,12,183,26,60,233,30,39,233,36,255>> @@
   6 :> <<71,122,95,55,136,109,150,187,79,180,96,13,183,179,106,196,219,213,171,67>> @@
   7 :> <<240,61,223,134,97,162,25,230,248,176,100,49,38,237,79,145,227,35,255,162>> @@
   8 :> <<79,83,19,43,27,203,51,129,159,156,160,211,140,74,106,30,59,104,208,97>> @@
   9 :> <<95,57,82,252,146,252,66,234,251,230,116,1,253,101,80,150,55,59,97,64>> @@
   10 :> <<23,207,116,11,30,172,44,37,94,126,58,162,101,47,18,205,222,125,106,206>> @@
   11 :> <<157,8,201,244,190,8,155,129,9,56,40,216,65,66,0,149,39,13,43,72>> @@
   12 :> <<208,58,168,12,29,114,162,203,45,147,115,213,188,68,30,126,53,166,121,228>> @@
   13 :> <<94,55,116,70,104,220,157,242,217,57,148,226,157,54,73,148,202,189,125,23>> @@
   14 :> <<162,160,79,131,97,151,144,216,174,1,243,185,158,233,16,30,160,99,208,67>> @@
   10000 :> <<47,170,207,32,166,124,146,27,180,76,108,215,81,244,6,180,92,120,62,138>>)

TwinKeySums ==
  (0 :> <<129,198,16,173,198,233,50,51,163,95,113,116,242,130,249,171,50,202,178,252>> @@
   1 :> <<155,229,61,203,120,230,151,73,159,145,128,131,255,208,119,60,255,240,95,155>> @@
   2 :> <<169,84,76,196,37,6,65,62,213,112,228,102,209,211,56,227,89,151,173,74>> @@
   3 :> <<37,139,223,42,92,25,135,207,174,153,209,207,233,250,38,196,24,229,242,212>> @@
   4 :> <<190,251,23,135,141,134,253,101,94,251,193,97,133,111,205,231,47,175,247,59>> @@
   5 :> <<26,134,92,64,162,4,132,161,109,88,126,24,57,238,6,188,226,167,129,223>> @@
   6 :> <<62,127,65,95,128,192,77,193,209,65,145,92,133,101,45,54,238,179,12,185>> @@
   7 :> <<25,246,8,34,160,65,147,17,157,236,131,168,248,126,57,0,169,185,68,82>> @@
   8 :> <<80,25,238,194,197,101,130,24,152,17,178,134,15,24,121,30,179,114,35,210>> @@
   9 :> <<36,167,223,98,26,199,27,152,5,43,79,86,20,207,58,248,111,237,242,196>> @@
   10 :> <<207,159,187,209,126,35,151,17,226,52,194,204,157,75,104,72,113,147,76,2>> @@
   11 :> <<218,46,93,108,93,138,4,45,149,69,243,89,134,0,254,185,2,110,144,198>> @@
   12 :> <<32,92,111,102,47,199,56,219,205,104,172,84,203,7,158,61,71,91,227,197>> @@
   13 :> <<26,61,116,91,248,42,47,222,85,174,55,201,76,131,147,68,243,217,187,129>> @@
   14 :> <<205,194,66,127,221,62,65,206,16,24,75,82,41,95,178,8,187,23,23,129>> @@
   10000 :> <<108,49,44,104,145,158,50,11,55,94,217,235,212,111,3,108,153,211,45,56>>)

\* hmac.New(sha1.New, key), binary.Write(hash, BigEndian, challenge), Sum(nil)
HmacSha1Sum(key, challenge) ==
  CASE key = TestKey -> TestKeySums[challenge]
    [] key = TwinKey -> TwinKeySums[challenge]

(***************************************************************************)
(* ComputeCode: the response code for a challenge under a secret.          *)
(***************************************************************************)
\* binary.BigEndian.Uint32(b[offset:offset+4]) & 0x7fffffff: the top bit of
\* the first byte is masked off, so the value stays below 2^31
Uint31At(b, offset) ==
  (b[offset + 1] % 128) * 16777216 + b[offset + 2] * 65536
    + b[offset + 3] * 256 + b[offset + 4]

ComputeCode(secret, challenge) ==
  LET dec == Base32Decode(secret)
  IN IF dec.err # Nil THEN [code |-> <<>>, err |-> ErrInvalidSecret]
     ELSE LET b == HmacSha1Sum(dec.bytes, challenge)
              offset == b[20] % 16
          IN [code |-> Sprintf06d(Uint31At(b, offset) % CodeModulus),
              err |-> Nil]

(***************************************************************************)
(* The OTPConfig object.  UsedCodes and ScratchCodes are Go slices: their  *)
(* order and their duplicates are part of the state.                       *)
(***************************************************************************)
OTPConfig(secret, windowSize, usedCodes, scratchCodes) ==
  [Secret |-> secret, WindowSize |-> windowSize,
   UsedCodes |-> usedCodes, ScratchCodes |-> scratchCodes]

\* new(OTPConfig): every field has its zero value
ZeroConfig == OTPConfig(<<>>, 0, <<>>, <<>>)

\* int(time.Now().UTC().Unix() / 30)
CurrentStep(unix) == GoDiv(unix, StepSeconds)

\* a variant of HalfWindow: the whole window size on either side
HalfWindowWhole(o) == o.WindowSize

\* otp.WindowSize / 2
HalfWindow(o) == GoDiv(o.WindowSize, 2)

\* minT := t0 - (otp.WindowSize / 2)
MinT(o, t0) == t0 - HalfWindow(o)

\* a variant of MaxT: the window reaches one step further above
MaxTOneMore(o, t0) == t0 + HalfWindow(o) + 1

\* maxT := t0 + (otp.WindowSize / 2)
MaxT(o, t0) == t0 + HalfWindow(o)

(***************************************************************************)
(* GC: keep, in order, the used steps that are not below the lower bound   *)
(* of the window of the clock value unix.                                  *)
(***************************************************************************)
\* variants of GCKeep: one that keeps the step just below the bound, and one
\* that drops nothing
GCKeepOneBelow(used, minT) == SelectSeq(used, LAMBDA u : u >= minT - 1)

GCKeepAll(used, minT) == used

\* a variant of GCKeep: the step at the lower bound is dropped too
GCKeepAbove(used, minT) == SelectSeq(used, LAMBDA u : u > minT)

GCKeep(used, minT) == SelectSeq(used, LAMBDA u : u >= minT)

\* a variant of GC: only the steps inside the window are kept
GCWindowOnly(o, unix) ==
  [o EXCEPT !.UsedCodes =
     SelectSeq(o.UsedCodes,
               LAMBDA u : /\ u >= MinT(o, CurrentStep(unix))
                          /\ u <= MaxT(o, CurrentStep(unix)))]

GC(o, unix) ==
  [o EXCEPT !.UsedCodes = GCKeep(o.UsedCodes, MinT(o, CurrentStep(unix)))]

(***************************************************************************)
(* Authenticate, as a function of the object, the password and the two     *)
(* clock readings of the call: unix is read by Authenticate itself and     *)
(* unixGC by the GC it calls after an accepted TOTP code.  The result      *)
(* holds the two return values, the object as the call leaves it, and what *)
(* the call did: the path taken, the step matched, whether GC ran.         *)
(***************************************************************************)
\* the step of a call that matched none
NoStep == 0 - 1

Outcome(ok, err, o, path, step, gc) ==
  [ok |-> ok, err |-> err, otp |-> o, path |-> path, step |-> step, gc |-> gc]

\* ComputeCode is pure: its results for the secrets and challenges of the
\* model, computed once
Challenges == 0..14

ComputedCodes ==
  [s \in Secrets |-> [t \in Challenges |-> ComputeCode(s, t)]]

RECURSIVE ScanWindowFromTop(_, _, _, _)
\* a variant of ScanWindow: the window is gone through from maxT down
ScanWindowFromTop(o, password, t, maxT) ==
  IF t > maxT THEN NoStep
  ELSE IF ComputedCodes[o.Secret][maxT].code = password THEN maxT
  ELSE ScanWindowFromTop(o, password, t, maxT - 1)

RECURSIVE ScanWindow(_, _, _, _)
\* for t := minT; t <= maxT; t++: the first t whose code is the password
ScanWindow(o, password, t, maxT) ==
  IF t > maxT THEN NoStep
  ELSE IF ComputedCodes[o.Secret][t].code = password THEN t
  ELSE ScanWindow(o, password, t + 1, maxT)

\* a variant of IsUsed: the loop stops one entry early
IsUsedSkipLast(used, t) == \E i \in 1..(Len(used) - 1) : used[i] = t

\* the loop over otp.UsedCodes
IsUsed(used, t) == \E i \in 1..Len(used) : used[i] = t

\* a variant of AuthTotp: a replay is rejected after garbage collection
AuthTotpGCOnReplay(o, password, unix, unixGC) ==
  LET t0 == CurrentStep(unix)
      t == ScanWindow(o, password, MinT(o, t0), MaxT(o, t0))
  IN IF t = NoStep THEN Outcome(FALSE, Nil, o, "totp", NoStep, FALSE)
     ELSE IF IsUsed(o.UsedCodes, t)
       THEN Outcome(FALSE, Nil, GC(o, unix), "totp", t, FALSE)
     ELSE Outcome(TRUE, Nil,
                  GC([o EXCEPT !.UsedCodes = Append(o.UsedCodes, t)], unixGC),
                  "totp", t, TRUE)

\* a variant of AuthTotp: the accepted step is not put into UsedCodes
AuthTotpForgetsStep(o, password, unix, unixGC) ==
  LET t0 == CurrentStep(unix)
      t == ScanWindow(o, password, MinT(o, t0), MaxT(o, t0))
  IN IF t = NoStep THEN Outcome(FALSE, Nil, o, "totp", NoStep, FALSE)
     ELSE IF IsUsed(o.UsedCodes, t) THEN Outcome(FALSE, Nil, o, "totp", t, FALSE)
     ELSE Outcome(TRUE, Nil, GC(o, unixGC), "totp", t, TRUE)

AuthTotp(o, password, unix, unixGC) ==
  LET t0 == CurrentStep(unix)
      t == ScanWindow(o, password, MinT(o, t0), MaxT(o, t0))
  IN IF t = NoStep THEN Outcome(FALSE, Nil, o, "totp", NoStep, FALSE)
     ELSE IF IsUsed(o.UsedCodes, t) THEN Outcome(FALSE, Nil, o, "totp", t, FALSE)
     ELSE Outcome(TRUE, Nil,
                  GC([o EXCEPT !.UsedCodes = Append(o.UsedCodes, t)], unixGC),
                  "totp", t, TRUE)

\* a variant of RemoveAt: append(s[:i], s[i:]...), which removes nothing
RemoveAtNoSkip(s, i) == SubSeq(s, 1, i - 1) \o SubSeq(s, i, Len(s))

\* append(s[:i], s[i+1:]...), with i counted from 1
RemoveAt(s, i) == SubSeq(s, 1, i - 1) \o SubSeq(s, i + 1, Len(s))

\* a variant of AuthScratch: an unknown code is reported as an error
AuthScratchUnknownIsError(o, code) ==
  IF \E i \in 1..Len(o.ScratchCodes) : o.ScratchCodes[i] = code
    THEN Outcome(TRUE, Nil,
                 [o EXCEPT !.ScratchCodes =
                    RemoveAt(o.ScratchCodes,
                             CHOOSE j \in 1..Len(o.ScratchCodes) :
                               /\ o.ScratchCodes[j] = code
                               /\ \A k \in 1..(j - 1) : o.ScratchCodes[k] # code)],
                 "scratch", NoStep, FALSE)
  ELSE Outcome(FALSE, ErrInvalidCode, o, "scratch", NoStep, FALSE)

AuthScratch(o, code) ==
  IF \E i \in 1..Len(o.ScratchCodes) : o.ScratchCodes[i] = code
    THEN LET i == CHOOSE j \in 1..Len(o.ScratchCodes) :
                    /\ o.ScratchCodes[j] = code
                    /\ \A k \in 1..(j - 1) : o.ScratchCodes[k] # code
         IN Outcome(TRUE, Nil,
                    [o EXCEPT !.ScratchCodes = RemoveAt(o.ScratchCodes, i)],
                    "scratch", NoStep, FALSE)
  ELSE Outcome(FALSE, Nil, o, "scratch", NoStep, FALSE)

\* the switch of Authenticate: which case a password that has parsed takes
IsTotpForm(password) == Len(password) = TotpLen

\* a variant of IsScratchForm: the first character is not looked at
IsScratchFormAnyFirst(password) == Len(password) = ScratchLen

IsScratchForm(password) ==
  Len(password) = ScratchLen /\ Ord(password[1]) >= Ord("1")

AuthenticateCall(o, password, unix, unixGC) ==
  LET parsed == Atoi(password)
  IN IF parsed.err # Nil
       THEN Outcome(FALSE, ErrInvalidCode, o, "parse", NoStep, FALSE)
     ELSE IF IsTotpForm(password) THEN AuthTotp(o, password, unix, unixGC)
     ELSE IF IsScratchForm(password) THEN AuthScratch(o, parsed.val)
     ELSE Outcome(FALSE, ErrInvalidCode, o, "default", NoStep, FALSE)

(***************************************************************************)
(* Save and Load.  encoding/gob sends a struct as its fields in order,     *)
(* leaving out every field that has its zero value; decoding sets the      *)
(* fields that were sent in the value it is given, here new(OTPConfig).    *)
(***************************************************************************)
GobField(num, value, zero) ==
  IF value = zero THEN <<>> ELSE << <<num, value>> >>

GobEncode(o) ==
  GobField(1, o.Secret, <<>>) \o GobField(2, o.WindowSize, 0)
    \o GobField(3, o.UsedCodes, <<>>) \o GobField(4, o.ScratchCodes, <<>>)

GobSent(data, num, into) ==
  IF \E i \in 1..Len(data) : data[i][1] = num
    THEN (CHOOSE f \in {data[i] : i \in 1..Len(data)} : f[1] = num)[2]
  ELSE into

GobDecode(data, into) ==
  OTPConfig(GobSent(data, 1, into.Secret), GobSent(data, 2, into.WindowSize),
            GobSent(data, 3, into.UsedCodes), GobSent(data, 4, into.ScratchCodes))

\* a variant of LoadConfig: decoding into an object with the defaults of New
LoadConfigIntoDefaults(data) ==
  GobDecode(data, OTPConfig(<<>>, 5, <<>>, <<>>))

\* Load: otp = new(OTPConfig), then Decode(&otp)
LoadConfig(data) == GobDecode(data, ZeroConfig)

(***************************************************************************)
(* New and NewScratchCode.  math/rand is library code: what rand.Read      *)
(* fills in and what rand.Intn returns are inputs, the 10 bytes of the     *)
(* secret and, for each scratch code, the 8 numbers drawn for its digits   *)
(* (the first from 0..8, the others from 0..9).                            *)
(***************************************************************************)
\* the character of a 5-bit value in the alphabet A-Z2-7
Base32Char(v) == IF v < 26 THEN UpperChars[v + 1] ELSE DigitChars[v - 26 + 3]

\* the 8 characters that 5 bytes give
Base32Group(b) ==
  << Base32Char(b[1] \div 8),
     Base32Char((b[1] % 8) * 4 + b[2] \div 64),
     Base32Char((b[2] \div 2) % 32),
     Base32Char((b[2] % 2) * 16 + b[3] \div 16),
     Base32Char((b[3] % 16) * 2 + b[4] \div 128),
     Base32Char((b[4] \div 4) % 32),
     Base32Char((b[4] % 4) * 8 + b[5] \div 32),
     Base32Char(b[5] % 32) >>

RECURSIVE Base32Encode(_)
\* base32.StdEncoding.EncodeToString on a multiple of 5 bytes (no padding)
Base32Encode(b) ==
  IF b = <<>> THEN <<>>
  ELSE Base32Group(SubSeq(b, 1, 5)) \o Base32Encode(SubSeq(b, 6, Len(b)))

\* a variant of NewScratchCode: the first digit is drawn like the others,
\* r[rand.Intn(9)] for r[rand.Intn(9)+1]
NewScratchCodeAnyFirst(draws) ==
  Atoi([i \in 1..ScratchLen |-> DigitChars[draws[i] + 1]]).val

\* b[0] = r[rand.Intn(9)+1], b[i] = r[rand.Intn(10)], c, _ := Atoi(string(b))
NewScratchCode(draws) ==
  Atoi([i \in 1..ScratchLen |->
          IF i = 1 THEN DigitChars[(draws[i] + 1) + 1]
          ELSE DigitChars[draws[i] + 1]]).val

\* New(scratchCodes), read being the bytes rand.Read filled in and draws the
\* numbers rand.Intn returned, 8 for each scratch code
New(scratchCodes, read, draws) ==
  OTPConfig(Base32Encode(read), 5, <<>>,
            [i \in 1..scratchCodes |-> NewScratchCode(draws[i])])

(***************************************************************************)
(* ProvisionURI.  url.Values is a map from a key to the values added under *)
(* it; Encode writes key=value for the keys in sorted order, joined by     *)
(* '&', each key and value passed through url.QueryEscape.  The path part  *)
(* (issuer, ':' and user) is concatenated as it is.                        *)
(***************************************************************************)
\* the characters url.QueryEscape leaves alone: letters, digits, - _ . ~
IsUnreserved(c) ==
  \/ Ord(c) >= 48 /\ Ord(c) <= 57
  \/ Ord(c) >= 65 /\ Ord(c) <= 90
  \/ Ord(c) >= 97 /\ Ord(c) <= 122
  \/ c \in {"-", "_", ".", "~"}

\* "0123456789ABCDEF"[n]
UpperHex(n) == IF n < 10 THEN DigitChars[n + 1] ELSE UpperChars[n - 10 + 1]

\* one character through url.QueryEscape: a space becomes '+', and every
\* other character that is not unreserved becomes %XX
EscapeChar(c) ==
  IF IsUnreserved(c) THEN <<c>>
  ELSE IF c = " " THEN <<"+">>
  ELSE <<"%", UpperHex(Ord(c) \div 16), UpperHex(Ord(c) % 16)>>

RECURSIVE QueryEscape(_)
QueryEscape(str) ==
  IF str = <<>> THEN <<>>
  ELSE EscapeChar(Head(str)) \o QueryEscape(Tail(str))

RECURSIVE StringLess(_, _)
\* a < b on Go strings: byte by byte, a proper prefix being the lesser
StringLess(a, b) ==
  IF b = <<>> THEN FALSE
  ELSE IF a = <<>> THEN TRUE
  ELSE IF Ord(Head(a)) # Ord(Head(b)) THEN Ord(Head(a)) < Ord(Head(b))
  ELSE StringLess(Tail(a), Tail(b))

\* q.Add(key, value): the value goes behind those the key already has
ValuesAdd(q, key, value) ==
  IF key \in DOMAIN q THEN [q EXCEPT ![key] = Append(@, value)]
  ELSE q @@ (key :> <<value>>)

RECURSIVE JoinPairs(_, _)
\* key=value for each value of one key, each pair behind an '&' unless it is
\* the first of the whole text
JoinPairs(key, values) ==
  IF values = <<>> THEN <<>>
  ELSE <<"&">> \o QueryEscape(key) \o <<"=">> \o QueryEscape(Head(values))
         \o JoinPairs(key, Tail(values))

RECURSIVE EncodeLastFirst(_, _)
\* a variant of EncodeKeys: the keys are written from the greatest down
EncodeLastFirst(q, keys) ==
  IF keys = {} THEN <<>>
  ELSE LET k == CHOOSE x \in keys : \A y \in keys \ {x} : StringLess(y, x)
       IN JoinPairs(k, q[k]) \o EncodeLastFirst(q, keys \ {k})

RECURSIVE EncodeKeys(_, _)
\* the pairs of the keys that are left, the least key first
EncodeKeys(q, keys) ==
  IF keys = {} THEN <<>>
  ELSE LET k == CHOOSE x \in keys : \A y \in keys \ {x} : StringLess(x, y)
       IN JoinPairs(k, q[k]) \o EncodeKeys(q, keys \ {k})

\* q.Encode()
ValuesEncode(q) ==
  LET pairs == EncodeKeys(q, DOMAIN q)
  IN IF pairs = <<>> THEN <<>> ELSE Tail(pairs)

\* the texts ProvisionURI is made of
SchemeText == <<"o", "t", "p", "a", "u", "t", "h", ":", "/", "/">>

TotpText == <<"t", "o", "t", "p", "/">>

SecretKey == <<"s", "e", "c", "r", "e", "t">>

IssuerKey == <<"i", "s", "s", "u", "e", "r">>

ProvisionURI(o, user, issuer) ==
  LET q0 == ValuesAdd(<<>>, SecretKey, o.Secret)
      q == IF issuer # <<>> THEN ValuesAdd(q0, IssuerKey, issuer) ELSE q0
      auth == IF issuer # <<>> THEN TotpText \o issuer \o <<":">>
              ELSE TotpText
  IN SchemeText \o auth \o user \o <<"?">> \o ValuesEncode(q)

(***************************************************************************)
(* The inputs of the model.                                                *)
(***************************************************************************)
\* TOTP codes a user may type: those of TestSecret for steps up to 4 away
\* from the clock's, and those of TwinSecret for the steps 5, 6 and 7
TestSteps == {3, 5, 6, 9}

TwinSteps == {5, 6, 7}

TotpPasswords ==
  {ComputedCodes[TestSecret][t].code : t \in TestSteps}
    \cup {ComputedCodes[TwinSecret][t].code : t \in TwinSteps}

\* the scratch codes of the test suite, as typed, and as held
ScratchPasswords ==
  { <<"1", "1", "1", "1", "2", "2", "2", "2">>,
    <<"2", "2", "2", "2", "3", "3", "3", "3">>,
    <<"3", "3", "3", "3", "4", "4", "4", "4">> }

\* the integers these are
ScratchCodeValues == {Atoi(p).val : p \in ScratchPasswords}

\* the scratch list an object is set up with: the list of the test suite,
\* 11112222 and 22223333, behind a second copy of 22223333 (nothing keeps the
\* codes New draws apart)
ScratchLists == {<<22223333, 11112222, 22223333>>}

\* passwords of the wrong form
OtherPasswords ==
  { <<>>,
    <<"f", "o", "o", "b", "a", "r">>,
    <<"1", "1", "1", "1", "1", "1", "1">>,
    <<"-", "1", "2", "3", "4", "5">>,
    <<"0", "1", "2", "3", "4", "5", "6", "7">> }

Passwords == TotpPasswords \cup ScratchPasswords \cup OtherPasswords

\* the window sizes of the test suite, and no tolerance at all
WindowSizes == {0, 3, 5}

\* the clock (Unix seconds) at the start: the last second of step 5
StartTime == 5 * StepSeconds + (StepSeconds - 1)

\* the clock advances by one step's length at a time
TickSeconds == StepSeconds

\* what UsedCodes may hold when the object is set up or loaded: nothing, or,
\* in no order, steps that are ahead of the window (12), stale (2, twice) and
\* inside the window (6)
PriorUsedCodes == {<<>>, <<12, 2, 6, 2>>}

\* what rand.Read may fill in for New: the bytes of the two secrets above
RandomReads == {TestKey, TwinKey}

\* what rand.Intn may return for the 8 digits of one scratch code: the least
\* and the greatest number for the first digit (of 0..8), with the least,
\* the greatest and mixed numbers for the others (of 0..9)
ScratchDraws ==
  {<<first>> \o rest :
     first \in {0, 8},
     rest \in {<<0, 0, 0, 0, 0, 0, 0>>, <<9, 9, 9, 9, 9, 9, 9>>,
               <<0, 9, 1, 8, 2, 7, 3>>}}

\* the arguments of ProvisionURI: the user and the issuers of the test suite,
\* and a user and two issuers with characters that are not letters
Users == {<<"t", "e", "s", "t">>, <<"a", "@", "b">>}

Issuers ==
  {<<>>, <<"C", "o", "m", "p", "a", "n", "y">>, <<"M", "y", " ", "C", "o">>, <<"R", "&", "D">>}

\* the challenges ComputeCode is called with: those of the test suite
VectorChallenges == {1, 5, 10000}

(***************************************************************************)
(* The state: the clock, the OTPConfig object, the last call with what it  *)
(* returned, and the history the properties speak of.                      *)
(***************************************************************************)
VARIABLES
  now,       \* time.Now().UTC().Unix()
  otp,       \* the OTPConfig object
  last,      \* the last call: its arguments, its results, the clock it read
  otp0,      \* history: the object as it was set up
  accepted,  \* history: the steps whose code Authenticate has accepted
  consumed,  \* history: how often Authenticate has accepted each scratch code
  calls,     \* the calls that goroutines are making side by side
  scratchArray, \* the array behind otp.ScratchCodes, with the elements
                \* beyond the slice's length; it is followed where goroutines
                \* share the object: calls made one after the other see the
                \* array only through the slice
  usedMemory    \* the three words of otp.UsedCodes and the memory at the
                \* arrays they may point to; followed, like scratchArray,
                \* where goroutines share the object

vars ==
  <<now, otp, last, otp0, accepted, consumed, calls, scratchArray, usedMemory>>

\* the record of a call: its password and what Authenticate returned (ok,
\* err) and did (path, step); the steps t0 and tgc that Authenticate and GC
\* read off the clock (NoStep when the call did not read it); the bytes Save
\* returned or Load was given; the object before the call (pre); and, for
\* Load, the object whose Save made the data, as it was before that Save (pre)
\* and as that Save left it (saved)
Call(op, password, r, t0, tgc, data, pre, saved) ==
  [op |-> op, password |-> password, ok |-> r.ok, err |-> r.err,
   path |-> r.path, step |-> r.step, t0 |-> t0, tgc |-> tgc,
   data |-> data, pre |-> pre, saved |-> saved]

NoResult == [ok |-> FALSE, err |-> Nil, path |-> "none", step |-> NoStep]

NoCall(op) ==
  Call(op, <<>>, NoResult, NoStep, NoStep, <<>>, ZeroConfig, ZeroConfig)

ElapsedTicks == (now - StartTime) \div TickSeconds

\* the goroutines that may call into the one object side by side
Goroutines == {1, 2}

\* the three words of a slice: the pointer to its array, its length and
\* its capacity
Words == {"ptr", "len", "cap"}

\* the two words that an index expression s[i] loads
IndexWords == {"ptr", "len"}

Header(ptr, len, cap) == [ptr |-> ptr, len |-> len, cap |-> cap]

\* the arrays that slices of UsedCodes point to: none (a nil slice); the
\* word runtime.zerobase, where make([]int, 0) points; the array of the
\* object's first slice; the array that the append of goroutine g
\* allocates; and the array of the b that the GC of goroutine g stores
NilArray == <<"nil", 0>>

ZeroBase == <<"zerobase", 0>>

FirstArray == <<"first", 0>>

AppendArray(g) == <<"append", g>>

GCArray(g) == <<"b", g>>

Arrays ==
  {NilArray, ZeroBase, FirstArray}
    \cup {AppendArray(g) : g \in Goroutines} \cup {GCArray(g) : g \in Goroutines}

\* how many words of memory the model follows from the start of an array:
\* the array itself and the words after it; no load or store of the calls
\* reaches further
ArrayWords == 4

\* what the words after an array hold when the calls begin: memory of other
\* objects of the program, with a step that has left the window, the step
\* of the clock, or a later step in it
WildWords == {0, 5, 9}

\* the memory from the start of a new array of capacity cap that holds
\* elems: the elements, the zeroed spare capacity, then foreign words that
\* hold wild
Region(elems, cap, wild) ==
  [k \in 1..ArrayWords |->
     IF k <= Len(elems) THEN elems[k] ELSE IF k <= cap THEN 0 ELSE wild]

\* the memory of otp.UsedCodes: the three words of the slice in the object
\* (header), the memory at each array (arrays), and the foreign value (wild)
UsedMemory(header, arrays, wild) ==
  [header |-> header, arrays |-> arrays, wild |-> wild]

\* the memory of a slice with the given elements and no spare capacity, as
\* a composite literal or Load makes it: nil when it has no elements
MemoryOf(used, wild) ==
  UsedMemory(IF used = <<>> THEN Header(NilArray, 0, 0)
             ELSE Header(FirstArray, Len(used), Len(used)),
             [a \in Arrays |->
                IF a = FirstArray THEN Region(used, Len(used), wild)
                ELSE IF a = ZeroBase THEN Region(<<>>, 1, wild)
                ELSE Region(<<>>, 0, wild)],
             wild)

\* the elements of the slice that the three words make: the first len words
\* at ptr (a nil slice shows none)
UsedView(m) ==
  IF m.header.ptr = NilArray THEN <<>>
  ELSE SubSeq(m.arrays[m.header.ptr], 1, m.header.len)

\* the capacities of runtime.growslice for slices of int: the size classes
\* of 8, 16, 24, 32, 48 and 64 bytes
SizeClassCaps == {1, 2, 3, 4, 6, 8}

\* the capacity append gives a slice of capacity oldCap that has to hold
\* newLen elements: doubled, or newLen when that is more, rounded up to a
\* size class
GrowCap(newLen, oldCap) ==
  LET want == IF newLen > 2 * oldCap THEN newLen ELSE 2 * oldCap
  IN CHOOSE c \in SizeClassCaps :
       c >= want /\ \A d \in SizeClassCaps : d >= want => c <= d

RECURSIVE CapOfAppends(_)
\* the capacity of b after k appends to make([]int, 0)
CapOfAppends(k) ==
  IF k = 0 THEN 0
  ELSE LET c == CapOfAppends(k - 1)
       IN IF k > c THEN GrowCap(k, c) ELSE c

\* the state of one goroutine's call: the method (op), where the call is in
\* it (pc), the password, and the locals: code, t, the length a range loop
\* took (n), the loop's i, the length that otp.ScratchCodes[i+1:] read (len),
\* how many elements a copy has read and written (r, w), the words of
\* otp.UsedCodes that the statement has loaded or is storing (h) and those
\* it has yet to load or store (todo), the slice being built (buf) and the
\* elements read from the array of ScratchCodes (elems); what the call
\* returned (data, ok, err); and whether the other goroutine's call was
\* under way when this one began (overlap)
CallState(op, pc, password, code, t, n, i, len, r, w, h, todo, buf, elems, data, ok, err, overlap) ==
  [op |-> op, pc |-> pc, password |-> password, code |-> code, t |-> t,
   n |-> n, i |-> i, len |-> len, r |-> r, w |-> w, h |-> h, todo |-> todo,
   buf |-> buf, elems |-> elems, data |-> data, ok |-> ok, err |-> err,
   overlap |-> overlap]

\* no call is being made
NoCalls ==
  [g \in Goroutines |->
     CallState("none", "idle", <<>>, 0, NoStep, 0, 0, 0, 0, 0,
               Header(NilArray, 0, 0), {}, <<>>, <<>>, <<>>, FALSE, Nil,
               FALSE)]

Init ==
  /\ now = StartTime
  /\ otp \in {OTPConfig(s, w, u, c) :
                s \in Secrets, w \in WindowSizes,
                u \in PriorUsedCodes, c \in ScratchLists}
  /\ last = NoCall("init")
  /\ otp0 = otp
  /\ accepted = {}
  /\ consumed = [c \in ScratchCodeValues |-> 0]
  /\ calls = NoCalls
  /\ scratchArray = <<>>
  /\ usedMemory = MemoryOf(<<>>, 0)

\* time passes between two calls
Tick ==
  /\ ElapsedTicks < MaxTicks
  /\ now' = now + TickSeconds
  /\ last' = NoCall("Tick")
  /\ UNCHANGED <<otp, otp0, accepted, consumed, calls, scratchArray,
                 usedMemory>>

\* otp.Authenticate(password); while an accepted TOTP call goes from its own
\* reading of the clock to that of GC, the clock may move on (by drift)
Authenticate ==
  \E password \in Passwords, drift \in {0, TickSeconds} :
    LET r == AuthenticateCall(otp, password, now, now + drift)
    IN /\ drift > 0 => (ElapsedTicks < MaxTicks /\ r.gc)
       /\ otp' = r.otp
       /\ now' = now + drift
       /\ last' = Call("Authenticate", password, r, CurrentStep(now),
                       IF r.gc THEN CurrentStep(now + drift) ELSE NoStep,
                       <<>>, otp, ZeroConfig)
       /\ accepted' = IF r.ok /\ r.path = "totp"
                        THEN accepted \cup {r.step} ELSE accepted
       /\ consumed' = IF r.ok /\ r.path = "scratch"
                        THEN [consumed EXCEPT ![Atoi(password).val] = @ + 1]
                      ELSE consumed
       /\ UNCHANGED <<otp0, calls, scratchArray,
                 usedMemory>>

\* otp.GC()
CollectGarbage ==
  /\ otp' = GC(otp, now)
  /\ last' = Call("GC", <<>>, NoResult, NoStep, CurrentStep(now), <<>>, otp,
                  ZeroConfig)
  /\ UNCHANGED <<now, otp0, accepted, consumed, calls, scratchArray,
                 usedMemory>>

\* data, err = otp.Save(): GC, then the gob encoding of the object
Save ==
  /\ otp' = GC(otp, now)
  /\ last' = Call("Save", <<>>, NoResult, NoStep, CurrentStep(now),
                  GobEncode(GC(otp, now)), otp, ZeroConfig)
  /\ UNCHANGED <<now, otp0, accepted, consumed, calls, scratchArray,
                 usedMemory>>

\* otp, err = Load(data), with the data the Save before it returned
Load ==
  /\ last.op = "Save"
  /\ otp' = LoadConfig(last.data)
  /\ last' = Call("Load", <<>>, NoResult, NoStep, NoStep, last.data, last.pre,
                  otp)
  /\ UNCHANGED <<now, otp0, accepted, consumed, calls, scratchArray,
                 usedMemory>>

Next == Tick \/ Authenticate \/ CollectGarbage \/ Save \/ Load

Spec == Init /\ [][Next]_vars

(***************************************************************************)
(* Setting an object up: New, ProvisionURI, and Authenticate with a        *)
(* scratch code of the object, starting from the object of                 *)
(* TestProvisionURI (Secret "x", every other field zero).  A behaviour     *)
(* follows one object: New is called at most once in it.                   *)
(***************************************************************************)
\* the record of one of these calls: its arguments, what it returned, and
\* the object before it
SetupCall(op, args, result, pre) ==
  [op |-> op, args |-> args, result |-> result, pre |-> pre]

\* strconv.Itoa(n) for n >= 0: the decimal text a scratch code is typed as
RECURSIVE Itoa(_)
Itoa(n) ==
  IF n < 10 THEN <<DigitChars[n + 1]>>
  ELSE Itoa(n \div 10) \o <<DigitChars[(n % 10) + 1]>>

InitSetup ==
  /\ now = StartTime
  /\ otp = OTPConfig(BadSecret, 0, <<>>, <<>>)
  /\ last = NoCall("init")
  /\ otp0 = otp
  /\ accepted = {}
  /\ consumed = [c \in ScratchCodeValues |-> 0]
  /\ calls = NoCalls
  /\ scratchArray = <<>>
  /\ usedMemory = MemoryOf(<<>>, 0)

\* otp = New(n)
NewConfig ==
  \E n \in 0..MaxScratchCodes, read \in RandomReads :
    \E draws \in [1..n -> ScratchDraws] :
      /\ otp0.Secret = BadSecret
      /\ otp' = New(n, read, draws)
      /\ last' = SetupCall("New", <<n>>, New(n, read, draws), otp)
      /\ otp0' = otp'
      /\ UNCHANGED <<now, accepted, consumed, calls, scratchArray,
                 usedMemory>>

\* otp.ProvisionURI(user, issuer)
ProvisionCall ==
  \E user \in Users, issuer \in Issuers :
    /\ last' = SetupCall("ProvisionURI", <<user, issuer>>,
                         ProvisionURI(otp, user, issuer), otp)
    /\ UNCHANGED <<now, otp, otp0, accepted, consumed, calls, scratchArray,
                 usedMemory>>

\* otp.Authenticate(password), the password being one of the object's
\* scratch codes in decimal
AuthenticateMinted ==
  \E i \in 1..Len(otp.ScratchCodes) :
    LET password == Itoa(otp.ScratchCodes[i])
        r == AuthenticateCall(otp, password, now, now)
    IN /\ otp' = r.otp
       /\ last' = SetupCall("Authenticate", <<password>>,
                            [ok |-> r.ok, err |-> r.err, path |-> r.path], otp)
       /\ UNCHANGED <<now, otp0, accepted, consumed, calls, scratchArray,
                 usedMemory>>

NextSetup == NewConfig \/ ProvisionCall \/ AuthenticateMinted

SpecSetup == InitSetup /\ [][NextSetup]_vars

(***************************************************************************)
(* Calling ComputeCode, a function of the package that is no method of the *)
(* object, next to an object in any of its initial states and a running    *)
(* clock.                                                                  *)
(***************************************************************************)
\* ComputeCode(secret, challenge)
ComputeCall ==
  \E secret \in Secrets, challenge \in VectorChallenges :
    /\ last' = SetupCall("ComputeCode", <<secret, challenge>>,
                         ComputeCode(secret, challenge), otp)
    /\ UNCHANGED <<now, otp, otp0, accepted, consumed, calls, scratchArray,
                 usedMemory>>

NextCompute == Tick \/ ComputeCall

SpecCompute == Init /\ [][NextCompute]_vars

(***************************************************************************)
(* Authenticate, GC and Save called by two goroutines on one object with   *)
(* no lock.  The code takes none, so the calls interleave between their    *)
(* loads and stores of the object's memory.  A slice is three words.  Of   *)
(* otp.UsedCodes each word is loaded and stored by itself, the loads of a  *)
(* statement in any order, so that a statement can see the pointer of one  *)
(* slice with the length of another, and two stores can leave such a slice *)
(* in the object.  A range loop loads the length once; otp.UsedCodes[i]    *)
(* loads pointer and length at every evaluation, panics when i is not      *)
(* below the length or the pointer is nil, and else loads the word at      *)
(* index i, inside the array or after it.  append(otp.UsedCodes, t) copies *)
(* into a new array when the length it loaded has reached the capacity it  *)
(* loaded.  The statement of line 123 stores the capacity and then the     *)
(* pointer of the new array, these two only when it has made one, then the *)
(* length, and only then writes t at the last index of the array it holds: *)
(* until then that word is what it was, and in a new array of two words   *)
(* or more what the block held before, as the allocator does not clear it. *)
(* The statement of line 156 stores its three words in any order.          *)
(* Of otp.ScratchCodes only the length changes: the append of line 135     *)
(* moves the elements down inside the one array, one by one, before the    *)
(* shorter slice is stored.  Each goroutine makes one call; the clock      *)
(* stands still while the calls run; a panic ends the call of its          *)
(* goroutine, and the caller recovers from it.                             *)
(***************************************************************************)
\* the passwords the goroutines type: the code of the clock's step, the two
\* scratch codes of the test suite, and one that is no number
RacePasswords ==
  { ComputedCodes[TestSecret][CurrentStep(StartTime)].code,
    <<"1", "1", "1", "1", "2", "2", "2", "2">>,
    <<"2", "2", "2", "2", "3", "3", "3", "3">>,
    <<"f", "o", "o", "b", "a", "r">> }

\* the window size of the objects the goroutines share, that of New; the
\* calls do the same with any other, as the one code typed is that of the
\* clock's step
RaceWindowSizes == {5}

\* their scratch lists: the list of the other behaviours, and a list of one
\* code, which leaves nothing to cut once the code is removed
RaceScratchLists == ScratchLists \cup {<<11112222>>}

\* their UsedCodes: none, or one step that has left every window
RaceUsedCodes == {<<>>, <<2>>}

InitRace ==
  /\ now = StartTime
  /\ otp \in {OTPConfig(TestSecret, w, u, c) :
                w \in RaceWindowSizes, u \in RaceUsedCodes,
                c \in RaceScratchLists}
  /\ last = NoCall("init")
  /\ otp0 = otp
  /\ accepted = {}
  /\ consumed = [c \in ScratchCodeValues |-> 0]
  /\ calls = NoCalls
  /\ scratchArray = otp.ScratchCodes
  /\ usedMemory \in {MemoryOf(otp.UsedCodes, wild) : wild \in WildWords}

\* the call of goroutine g is under way
Busy(g) == calls[g].pc \notin {"idle", "done", "panic"}

\* goroutine g leaves its call: the locals of the call are gone
Leave(g, pc) ==
  [calls[g] EXCEPT !.pc = pc, !.n = 0, !.i = 0, !.len = 0, !.r = 0, !.w = 0,
                   !.h = Header(NilArray, 0, 0), !.todo = {},
                   !.buf = <<>>, !.elems = <<>>]

\* the call of goroutine g returns (ok, err)
Return(g, ok, err) ==
  [calls EXCEPT ![g] = [Leave(g, "done") EXCEPT !.ok = ok, !.err = err]]

\* the call of goroutine g panics: index or slice bounds out of range, or
\* nil pointer dereference
Panic(g) == [calls EXCEPT ![g] = Leave(g, "panic")]

\* goroutine g goes on to a statement that loads or stores the given words
\* of otp.UsedCodes; the words the last statement loaded are gone
Goto(g, pc, todo) ==
  [calls EXCEPT ![g].pc = pc, ![g].todo = todo,
                ![g].h = Header(NilArray, 0, 0)]

\* a variant of WriteElement: nothing is written
WriteElementNothing(array, k, t) == array

\* append's write of t into the k-th word of the array it holds
WriteElement(array, k, t) == [array EXCEPT ![k] = t]

\* Authenticate up to its first load from a slice: Atoi, the switch, on the
\* TOTP path the clock and the loop over the window down to the match, and
\* the length that the range loop of the path loads
RaceBegin(g) ==
  \E password \in RacePasswords :
    LET parsed == Atoi(password)
        t0 == CurrentStep(now)
        t == ScanWindow(otp, password, MinT(otp, t0), MaxT(otp, t0))
        over == \E h \in Goroutines \ {g} : Busy(h)
        begun == [calls EXCEPT ![g].op = "Authenticate",
                               ![g].password = password,
                               ![g].code = parsed.val,
                               ![g].overlap = over]
    IN /\ calls[g].pc = "idle"
       /\ calls' =
            IF parsed.err # Nil
              THEN [begun EXCEPT ![g].pc = "done", ![g].err = ErrInvalidCode]
            ELSE IF IsTotpForm(password)
              THEN IF t = NoStep THEN [begun EXCEPT ![g].pc = "done"]
                   ELSE IF usedMemory.header.len = 0
                     THEN [begun EXCEPT ![g].pc = "append", ![g].t = t,
                                        ![g].todo = Words]
                   ELSE [begun EXCEPT ![g].pc = "check", ![g].t = t,
                                      ![g].n = usedMemory.header.len,
                                      ![g].todo = IndexWords]
            ELSE IF IsScratchForm(password)
              THEN IF Len(otp.ScratchCodes) = 0
                     THEN [begun EXCEPT ![g].pc = "done"]
                   ELSE [begun EXCEPT ![g].pc = "find",
                                      ![g].n = Len(otp.ScratchCodes)]
            ELSE [begun EXCEPT ![g].pc = "done", ![g].err = ErrInvalidCode]
       /\ UNCHANGED <<now, otp, last, otp0, accepted, consumed, scratchArray,
                      usedMemory>>

\* a call of otp.GC() or otp.Save() begins; Save begins with otp.GC()
RaceCall(g) ==
  \E op \in {"GC", "Save"} :
    /\ calls[g].pc = "idle"
    /\ calls' = [calls EXCEPT
                   ![g].op = op, ![g].pc = "gc",
                   ![g].overlap = \E h \in Goroutines \ {g} : Busy(h)]
    /\ UNCHANGED <<now, otp, last, otp0, accepted, consumed, scratchArray,
                   usedMemory>>

\* a statement loads one of the words of otp.UsedCodes it has yet to load:
\* otp.UsedCodes[i] of lines 119, 152 and 153, append(otp.UsedCodes, t) of
\* line 123, and *otp of line 95
RaceLoadWord(g) ==
  /\ calls[g].pc \in {"check", "append", "gc:test", "gc:copy", "save"}
  /\ \E word \in calls[g].todo :
       calls' = [calls EXCEPT ![g].h[word] = usedMemory.header[word],
                              ![g].todo = @ \ {word}]
  /\ UNCHANGED <<now, otp, last, otp0, accepted, consumed, scratchArray,
                 usedMemory>>

\* one turn of the loop over otp.UsedCodes, with pointer and length loaded:
\* the bounds check, the load of the word at index i, and the comparison
\* with t
RaceCheck(g) ==
  /\ calls[g].pc = "check"
  /\ calls[g].todo = {}
  /\ calls' =
       IF calls[g].i >= calls[g].h.len \/ calls[g].h.ptr = NilArray
         THEN Panic(g)
       ELSE IF usedMemory.arrays[calls[g].h.ptr][calls[g].i + 1] = calls[g].t
         THEN Return(g, FALSE, Nil)
       ELSE IF calls[g].i + 1 = calls[g].n
         THEN [Goto(g, "append", Words) EXCEPT ![g].i = 0, ![g].n = 0]
       ELSE [Goto(g, "check", IndexWords) EXCEPT ![g].i = @ + 1]
  /\ UNCHANGED <<now, otp, last, otp0, accepted, consumed, scratchArray,
                 usedMemory>>

\* what the allocator can have left in a word of a block that it hands out
\* uncleared: 0 in a block never used, or what the last owner wrote there,
\* as the step of the clock now, or a later one, in a freed array of steps
StaleWords == {0, 5, 7}

\* the memory once goroutine g has allocated the array of its append, with
\* the elements it has copied.  The capacity past the new length is
\* cleared; the word that t goes to is not, and holds what the block held,
\* but in an array of one word, which comes cleared
Grown(g, copied, stale) ==
  LET h == calls[g].h
      cap == GrowCap(h.len + 1, h.cap)
      cleared == Region(copied, cap, usedMemory.wild)
  IN [usedMemory EXCEPT
        !.arrays[AppendArray(g)] =
          [cleared EXCEPT ![h.len + 1] = IF cap >= 2 THEN stale ELSE 0]]

\* goroutine g goes on to store the slice of its new array: the capacity
\* first
StoreGrown(g) ==
  LET h == calls[g].h
  IN [Goto(g, "append:cap", {}) EXCEPT
        ![g].h = Header(AppendArray(g), h.len + 1, GrowCap(h.len + 1, h.cap)),
        ![g].r = 0, ![g].buf = <<>>]

\* append(otp.UsedCodes, t), with the three words loaded.  With no spare
\* capacity it has len elements to copy into a new array, and faults when
\* it has some to copy from a nil pointer; with spare capacity it keeps
\* pointer and capacity, and the statement has only the length to store
RaceAppend(g) ==
  LET h == calls[g].h
  IN /\ calls[g].pc = "append"
     /\ calls[g].todo = {}
     /\ IF h.len + 1 > h.cap
          THEN IF h.len = 0
                 THEN /\ usedMemory' = Grown(g, <<>>, 0)
                      /\ calls' = StoreGrown(g)
               ELSE /\ usedMemory' = usedMemory
                    /\ calls' = IF h.ptr = NilArray THEN Panic(g)
                                ELSE [calls EXCEPT ![g].pc = "grow"]
        ELSE /\ usedMemory' = usedMemory
             /\ calls' = [Goto(g, "append:len", {}) EXCEPT
                            ![g].h = Header(h.ptr, h.len + 1, h.cap)]
     /\ UNCHANGED <<now, otp, last, otp0, accepted, consumed, scratchArray>>

\* append copies one of the len elements at the pointer it loaded; after
\* the last one the new array is made, of a block that is not cleared where
\* t goes
RaceGrowCopy(g) ==
  LET h == calls[g].h
      copied == Append(calls[g].buf, usedMemory.arrays[h.ptr][calls[g].r + 1])
  IN /\ calls[g].pc = "grow"
     /\ IF calls[g].r + 1 = h.len
          THEN /\ \E stale \in StaleWords :
                    usedMemory' = Grown(g, copied, stale)
               /\ calls' = StoreGrown(g)
        ELSE /\ usedMemory' = usedMemory
             /\ calls' = [calls EXCEPT ![g].r = @ + 1, ![g].buf = copied]
     /\ UNCHANGED <<now, otp, last, otp0, accepted, consumed, scratchArray>>

\* the memory once goroutine g has stored one word of the slice it holds
Stored(g, word) == [usedMemory EXCEPT !.header[word] = calls[g].h[word]]

\* otp.UsedCodes = append(...): the statement stores one word of the slice.
\* Of a new array it stores the capacity, then the pointer, then the
\* length; of the array it appended in, the length alone
RaceAppendStore(g) ==
  /\ \/ /\ calls[g].pc = "append:cap"
        /\ usedMemory' = Stored(g, "cap")
        /\ calls' = [calls EXCEPT ![g].pc = "append:ptr"]
     \/ /\ calls[g].pc = "append:ptr"
        /\ usedMemory' = Stored(g, "ptr")
        /\ calls' = [calls EXCEPT ![g].pc = "append:len"]
     \/ /\ calls[g].pc = "append:len"
        /\ usedMemory' = Stored(g, "len")
        /\ calls' = [calls EXCEPT ![g].pc = "append:write"]
  /\ otp' = [otp EXCEPT !.UsedCodes = UsedView(usedMemory')]
  /\ UNCHANGED <<now, last, otp0, accepted, consumed, scratchArray>>

\* ... and, the words stored, writes t at the last index of the slice it
\* holds, through the pointer it holds: that of its new array, or the one it
\* loaded, and a nil one faults.  Then otp.GC() is called
RaceAppendWrite(g) ==
  LET h == calls[g].h
  IN /\ calls[g].pc = "append:write"
     /\ IF h.ptr = NilArray
          THEN /\ usedMemory' = usedMemory
               /\ calls' = Panic(g)
        ELSE /\ usedMemory' =
                  [usedMemory EXCEPT
                     !.arrays[h.ptr] = WriteElement(@, h.len, calls[g].t)]
             /\ calls' = Goto(g, "gc", {})
     /\ otp' = [otp EXCEPT !.UsedCodes = UsedView(usedMemory')]
     /\ UNCHANGED <<now, last, otp0, accepted, consumed, scratchArray>>

\* the memory once the GC of goroutine g has left its loop with b: the array
\* of b, as the appends to make([]int, 0) have made it
Collected(g, b) ==
  IF b = <<>> THEN usedMemory
  ELSE [usedMemory EXCEPT
          !.arrays[GCArray(g)] =
            Region(b, CapOfAppends(Len(b)), usedMemory.wild)]

\* the GC of goroutine g goes on to store b
StoreCollected(g, b) ==
  [Goto(g, "gc:store", Words) EXCEPT
     ![g].h = IF b = <<>> THEN Header(ZeroBase, 0, 0)
              ELSE Header(GCArray(g), Len(b), CapOfAppends(Len(b))),
     ![g].i = 0, ![g].n = 0, ![g].buf = <<>>]

\* GC up to its loop: b := make([]int, 0), and the length the range loads
RaceGCBegin(g) ==
  /\ calls[g].pc = "gc"
  /\ calls' = IF usedMemory.header.len = 0 THEN StoreCollected(g, <<>>)
              ELSE [Goto(g, "gc:test", IndexWords) EXCEPT
                      ![g].n = usedMemory.header.len]
  /\ UNCHANGED <<now, otp, last, otp0, accepted, consumed, scratchArray,
                 usedMemory>>

\* one turn of GC's loop, its test, with pointer and length loaded: the
\* bounds check, the load of the word at index i, and >= minT
RaceGCTest(g) ==
  LET b == calls[g].buf
  IN /\ calls[g].pc = "gc:test"
     /\ calls[g].todo = {}
     /\ IF calls[g].i >= calls[g].h.len \/ calls[g].h.ptr = NilArray
          THEN /\ calls' = Panic(g)
               /\ usedMemory' = usedMemory
        ELSE IF GCKeep(<<usedMemory.arrays[calls[g].h.ptr][calls[g].i + 1]>>,
                       MinT(otp, CurrentStep(now))) # <<>>
          THEN /\ calls' = Goto(g, "gc:copy", IndexWords)
               /\ usedMemory' = usedMemory
        ELSE IF calls[g].i + 1 = calls[g].n
          THEN /\ calls' = StoreCollected(g, b)
               /\ usedMemory' = Collected(g, b)
        ELSE /\ calls' = [Goto(g, "gc:test", IndexWords) EXCEPT ![g].i = @ + 1]
             /\ usedMemory' = usedMemory
     /\ UNCHANGED <<now, otp, last, otp0, accepted, consumed, scratchArray>>

\* ... and its body, with pointer and length loaded again:
\* b = append(b, otp.UsedCodes[i])
RaceGCCopy(g) ==
  LET b == Append(calls[g].buf,
                  usedMemory.arrays[calls[g].h.ptr][calls[g].i + 1])
  IN /\ calls[g].pc = "gc:copy"
     /\ calls[g].todo = {}
     /\ IF calls[g].i >= calls[g].h.len \/ calls[g].h.ptr = NilArray
          THEN /\ calls' = Panic(g)
               /\ usedMemory' = usedMemory
        ELSE IF calls[g].i + 1 = calls[g].n
          THEN /\ calls' = StoreCollected(g, b)
               /\ usedMemory' = Collected(g, b)
        ELSE /\ calls' = [Goto(g, "gc:test", IndexWords) EXCEPT
                            ![g].i = @ + 1, ![g].buf = b]
             /\ usedMemory' = usedMemory
     /\ UNCHANGED <<now, otp, last, otp0, accepted, consumed, scratchArray>>

\* otp.UsedCodes = b: one word of the slice is stored; after the last one
\* GC returns: Authenticate returns true, nil, and Save goes on to encode
\* the object
RaceGCStore(g) ==
  /\ calls[g].pc = "gc:store"
  /\ \E word \in calls[g].todo :
       /\ usedMemory' = Stored(g, word)
       /\ calls' = IF calls[g].todo # {word}
                     THEN [calls EXCEPT ![g].todo = @ \ {word}]
                   ELSE IF calls[g].op = "Authenticate"
                     THEN Return(g, TRUE, Nil)
                   ELSE IF calls[g].op = "Save"
                     THEN Goto(g, "save", IndexWords)
                   ELSE Return(g, FALSE, Nil)
  /\ otp' = [otp EXCEPT !.UsedCodes = UsedView(usedMemory')]
  /\ UNCHANGED <<now, last, otp0, accepted, consumed, scratchArray>>

\* the data Save returns for the UsedCodes and the scratch codes it has read
SaveData(used, scratch) ==
  GobEncode(OTPConfig(otp.Secret, otp.WindowSize, used, scratch))

\* Save returns the data, or the encoder goes on to the elements it has yet
\* to read: those of the copy's UsedCodes, then those of its ScratchCodes
SaveNext(g, used, n) ==
  IF Len(used) < calls[g].h.len
    THEN [calls EXCEPT ![g].pc = "save:used", ![g].n = n, ![g].buf = used]
  ELSE IF n > 0
    THEN [calls EXCEPT ![g].pc = "save:encode", ![g].n = n, ![g].buf = used]
  ELSE [Return(g, FALSE, Nil) EXCEPT ![g].data = SaveData(used, <<>>)]

\* Encode(*otp): the object is copied for the call; pointer and length of
\* UsedCodes are loaded, then the length of ScratchCodes
RaceSaveCopyScratch(g) ==
  /\ calls[g].pc = "save"
  /\ calls[g].todo = {}
  /\ calls' = SaveNext(g, <<>>, Len(otp.ScratchCodes))
  /\ UNCHANGED <<now, otp, last, otp0, accepted, consumed, scratchArray,
                 usedMemory>>

\* the encoder reads one element of the copy's UsedCodes, at the pointer
\* that was loaded
RaceSaveEncodeUsed(g) ==
  /\ calls[g].pc = "save:used"
  /\ calls' =
       IF calls[g].h.ptr = NilArray THEN Panic(g)
       ELSE SaveNext(g,
                     Append(calls[g].buf,
                            usedMemory.arrays[calls[g].h.ptr]
                                             [Len(calls[g].buf) + 1]),
                     calls[g].n)
  /\ UNCHANGED <<now, otp, last, otp0, accepted, consumed, scratchArray,
                 usedMemory>>

\* the encoder reads one element of the array of ScratchCodes; after the
\* last one Save returns the data
RaceSaveEncode(g) ==
  /\ calls[g].pc = "save:encode"
  /\ calls' =
       LET read == Append(calls[g].elems, scratchArray[calls[g].i + 1])
       IN IF calls[g].i + 1 = calls[g].n
            THEN [Return(g, FALSE, Nil) EXCEPT
                    ![g].data = SaveData(calls[g].buf, read)]
          ELSE [calls EXCEPT ![g].i = @ + 1, ![g].elems = read]
  /\ UNCHANGED <<now, otp, last, otp0, accepted, consumed, scratchArray,
                 usedMemory>>

\* one turn of the loop over otp.ScratchCodes: code == otp.ScratchCodes[i]
RaceFind(g) ==
  /\ calls[g].pc = "find"
  /\ calls' =
       IF calls[g].i >= Len(otp.ScratchCodes) THEN Panic(g)
       ELSE IF scratchArray[calls[g].i + 1] = calls[g].code
         THEN [calls EXCEPT ![g].pc = "remove", ![g].n = 0]
       ELSE IF calls[g].i + 1 = calls[g].n THEN Return(g, FALSE, Nil)
       ELSE [calls EXCEPT ![g].i = @ + 1]
  /\ UNCHANGED <<now, otp, last, otp0, accepted, consumed, scratchArray,
                 usedMemory>>

\* otp.ScratchCodes[:i] and otp.ScratchCodes[i+1:]: the second slice
\* expression panics when the slice has become shorter than i+1; else
\* append has len - (i+1) elements to move
RaceSlice(g) ==
  /\ calls[g].pc = "remove"
  /\ calls' =
       IF calls[g].i + 1 > Len(otp.ScratchCodes) THEN Panic(g)
       ELSE IF calls[g].i + 1 = Len(otp.ScratchCodes)
         THEN [calls EXCEPT ![g].pc = "remove:store",
                            ![g].len = Len(otp.ScratchCodes)]
       ELSE [calls EXCEPT ![g].pc = "move", ![g].len = Len(otp.ScratchCodes)]
  /\ UNCHANGED <<now, otp, last, otp0, accepted, consumed, scratchArray,
                 usedMemory>>

\* append reads the next element it has to move, array[i+1+r] ...
RaceMoveRead(g) ==
  /\ calls[g].pc = "move"
  /\ calls[g].r < calls[g].len - (calls[g].i + 1)
  /\ calls' = [calls EXCEPT
                 ![g].r = @ + 1,
                 ![g].elems =
                   Append(@, scratchArray[calls[g].i + 1 + calls[g].r + 1])]
  /\ UNCHANGED <<now, otp, last, otp0, accepted, consumed, scratchArray,
                 usedMemory>>

\* ... and writes the next element it has read, one place down, at
\* array[i+w]; the slice otp.ScratchCodes shows the array up to its length
RaceMoveWrite(g) ==
  /\ calls[g].pc = "move"
  /\ calls[g].w < calls[g].r
  /\ scratchArray' =
       [scratchArray EXCEPT ![calls[g].i + calls[g].w + 1] =
                              calls[g].elems[calls[g].w + 1]]
  /\ otp' = [otp EXCEPT !.ScratchCodes =
                          SubSeq(scratchArray', 1, Len(otp.ScratchCodes))]
  /\ calls' =
       IF calls[g].w + 1 = calls[g].len - (calls[g].i + 1)
         THEN [calls EXCEPT ![g].pc = "remove:store", ![g].r = 0, ![g].w = 0,
                            ![g].elems = <<>>]
       ELSE [calls EXCEPT ![g].w = @ + 1]
  /\ UNCHANGED <<now, last, otp0, accepted, consumed, usedMemory>>

\* otp.ScratchCodes = the slice of len - 1 elements, and return true, nil
RaceRemoveStore(g) ==
  /\ calls[g].pc = "remove:store"
  /\ otp' = [otp EXCEPT !.ScratchCodes =
                          SubSeq(scratchArray, 1, calls[g].len - 1)]
  /\ calls' = Return(g, TRUE, Nil)
  /\ UNCHANGED <<now, last, otp0, accepted, consumed, scratchArray,
                 usedMemory>>

NextRace ==
  \/ \E g \in Goroutines : RaceBegin(g)
  \/ \E g \in Goroutines : RaceCall(g)
  \/ \E g \in Goroutines : RaceLoadWord(g)
  \/ \E g \in Goroutines : RaceCheck(g)
  \/ \E g \in Goroutines : RaceAppend(g)
  \/ \E g \in Goroutines : RaceGrowCopy(g)
  \/ \E g \in Goroutines : RaceAppendStore(g)
  \/ \E g \in Goroutines : RaceAppendWrite(g)
  \/ \E g \in Goroutines : RaceGCBegin(g)
  \/ \E g \in Goroutines : RaceGCTest(g)
  \/ \E g \in Goroutines : RaceGCCopy(g)
  \/ \E g \in Goroutines : RaceGCStore(g)
  \/ \E g \in Goroutines : RaceSaveCopyScratch(g)
  \/ \E g \in Goroutines : RaceSaveEncodeUsed(g)
  \/ \E g \in Goroutines : RaceSaveEncode(g)
  \/ \E g \in Goroutines : RaceFind(g)
  \/ \E g \in Goroutines : RaceSlice(g)
  \/ \E g \in Goroutines : RaceMoveRead(g)
  \/ \E g \in Goroutines : RaceMoveWrite(g)
  \/ \E g \in Goroutines : RaceRemoveStore(g)

SpecRace == InitRace /\ [][NextRace]_vars

(***************************************************************************)
(* What the properties speak of.                                           *)
(***************************************************************************)
\* step t lies in the window of the clock step t0
InWindow(o, t, t0) == MinT(o, t0) <= t /\ t <= MaxT(o, t0)

\* how often the list s holds the value c
Count(s, c) == Cardinality({i \in 1..Len(s) : s[i] = c})

\* the password is made of decimal digits only
AllDigits(p) == \A i \in 1..Len(p) : \E d \in 1..10 : DigitChars[d] = p[i]

\* the password is an optional sign followed by at least one decimal digit:
\* it is the decimal text of an integer
IsNumeric(p) ==
  /\ p # <<>>
  /\ LET body == IF p[1] \in {"+", "-"} THEN Tail(p) ELSE p
     IN body # <<>> /\ AllDigits(body)

\* a 6-digit code, or an 8-digit code that does not start with '0'
WellFormed(p) ==
  /\ AllDigits(p)
  /\ Len(p) = 6 \/ (Len(p) = 8 /\ p[1] # "0")

LastIsAuthenticate == last.op = "Authenticate"

LastAcceptedTotp == LastIsAuthenticate /\ last.ok /\ last.path = "totp"

(***************************************************************************)
(* C1  No replay.  Once Authenticate has accepted a 6-digit code for step  *)
(* t, every later Authenticate call with the same code, made while t is    *)
(* still inside the window of the clock that call reads, returns           *)
(* (false, nil), whatever Authenticate, GC, Save (and Load of what Save    *)
(* returned) calls were made in between.                                   *)
(***************************************************************************)
C1_NoReplay ==
  [][ \A t \in accepted :
        ( /\ last'.op = "Authenticate"
          /\ last'.password = ComputedCodes[otp.Secret][t].code
          /\ InWindow(otp, t, last'.t0) )
        => (last'.ok = FALSE /\ last'.err = Nil) ]_vars

\* a replay is rejected after the clock has moved on and other calls were
\* made, the step being still in the window
C1_Witness ==
  /\ LastIsAuthenticate /\ ~last.ok /\ last.err = Nil
  /\ last.step \in accepted
  /\ last.t0 > last.step
  /\ Cardinality(accepted) >= 2

\* the offsets k of a code's step from the clock's step that are looked at
MaxOffset == 4

\* the last call was Authenticate on an object with an empty UsedCodes, and
\* its password is the code of step t0+k and of no other step of the window
C2_Applies(k) ==
  LET o == last.pre
      t == last.t0 + k
      c == ComputeCode(o.Secret, t)
  IN /\ LastIsAuthenticate
     /\ o.UsedCodes = <<>>
     /\ o.WindowSize >= 0
     /\ c.err = Nil
     /\ last.password = c.code
     /\ \A u \in (last.t0 - o.WindowSize)..(last.t0 + o.WindowSize) :
          (u # t /\ InWindow(o, u, last.t0))
            => ComputeCode(o.Secret, u).code # c.code

(***************************************************************************)
(* C2  Window acceptance.  For an object whose UsedCodes is empty, with    *)
(* window size w >= 0 and clock step t0, the code computed for step t0+k   *)
(* (the code of no other step of the window) is accepted if and only if    *)
(* -(w/2) <= k <= w/2, the division truncating: with w = 5 exactly for k   *)
(* in -2..2 (not for -4, -3, 3, 4), and with w = 3 for k = 0.              *)
(***************************************************************************)
C2_WindowAcceptance ==
  \A k \in (-MaxOffset)..MaxOffset :
    C2_Applies(k) =>
      LET w == last.pre.WindowSize
      IN /\ last.ok <=> (-(w \div 2) <= k /\ k <= w \div 2)
         /\ w = 5 => (last.ok <=> k \in -2..2)
         /\ (w = 3 /\ k = 0) => last.ok
         /\ last.err = Nil

\* with window size 5, the code of the step two below the clock's is accepted
C2_Witness ==
  /\ C2_Applies(-2)
  /\ last.pre.WindowSize = 5
  /\ last.ok

\* the last call took the scratch-code path, with this code
LastIsScratch == LastIsAuthenticate /\ last.path = "scratch"

LastScratchCode == Atoi(last.password).val

(***************************************************************************)
(* C3  Scratch single-use, as claimed: no scratch code is accepted twice,  *)
(* the second and every later submission of a code and any submission of   *)
(* a code the object never held return (false, nil), and a consumed code   *)
(* is no longer in ScratchCodes.                                           *)
(***************************************************************************)
C3_AcceptedOnce ==
  /\ \A c \in ScratchCodeValues :
       /\ consumed[c] <= 1
       /\ consumed[c] >= 1 => Count(otp.ScratchCodes, c) = 0
  /\ LastIsScratch =>
       /\ last.err = Nil
       /\ Count(otp0.ScratchCodes, LastScratchCode) = 0 => ~last.ok

(***************************************************************************)
(* C3  Scratch single-use, as the code has it: a scratch code is accepted  *)
(* as often as the object's scratch list holds it and no more (once when   *)
(* the list holds it once).  A submission is accepted exactly when the     *)
(* code is in the list at that moment, and it removes one occurrence;      *)
(* every other 8-digit submission returns (false, nil); a code the list    *)
(* held once is no longer in it once consumed.                             *)
(***************************************************************************)
C3_AcceptedAsOftenAsHeld ==
  /\ \A c \in ScratchCodeValues :
       /\ consumed[c] + Count(otp.ScratchCodes, c) = Count(otp0.ScratchCodes, c)
       /\ (Count(otp0.ScratchCodes, c) = 1 /\ consumed[c] = 1)
            => Count(otp.ScratchCodes, c) = 0
  /\ LastIsScratch =>
       /\ last.err = Nil
       /\ last.ok <=> Count(last.pre.ScratchCodes, LastScratchCode) > 0
       /\ ~last.ok => Count(otp.ScratchCodes, LastScratchCode) = 0
       /\ Count(otp0.ScratchCodes, LastScratchCode) = 0 => ~last.ok

\* the code the list held twice has been accepted twice and is now rejected,
\* and the code it held once has been accepted once
C3_Witness ==
  /\ LastIsScratch /\ ~last.ok
  /\ LastScratchCode = 22223333
  /\ consumed[22223333] = 2
  /\ consumed[11112222] = 1

\* the three kinds of password the format rejection names
C4_Malformed(p) ==
  \/ ~IsNumeric(p)
  \/ IsNumeric(p) /\ Len(p) # 6 /\ Len(p) # 8
  \/ IsNumeric(p) /\ Len(p) = 8 /\ p[1] = "0"

(***************************************************************************)
(* C4  Format rejection.  Authenticate returns (false, ErrInvalidCode) for *)
(* every password that is not the decimal text of an integer, for every    *)
(* numeric password whose length is neither 6 nor 8, and for every         *)
(* 8-character numeric password that starts with '0'; the call leaves      *)
(* UsedCodes and ScratchCodes as they were.                                *)
(***************************************************************************)
C4_FormatRejection ==
  (LastIsAuthenticate /\ C4_Malformed(last.password)) =>
    /\ last.ok = FALSE
    /\ last.err = ErrInvalidCode
    /\ otp.UsedCodes = last.pre.UsedCodes
    /\ otp.ScratchCodes = last.pre.ScratchCodes

\* an 8-digit password that starts with '0' is refused as malformed by an
\* object that holds used steps and scratch codes
C4_Witness ==
  /\ LastIsAuthenticate
  /\ Len(last.password) = 8 /\ last.password[1] = "0"
  /\ last.err = ErrInvalidCode
  /\ otp.UsedCodes # <<>> /\ otp.ScratchCodes # <<>>

\* the password is the decimal text of a non-negative integer
IsNonNegativeNumeric(p) == IsNumeric(p) /\ p[1] # "-"

(***************************************************************************)
(* C5  Authenticate fails with ErrInvalidCode for every password that is   *)
(* not the decimal text of a non-negative integer, a 6-character password  *)
(* with a minus sign included.                                             *)
(***************************************************************************)
C5_SignedPasswordIsInvalid ==
  (LastIsAuthenticate /\ ~IsNonNegativeNumeric(last.password)) =>
    (last.ok = FALSE /\ last.err = ErrInvalidCode)

(***************************************************************************)
(* C6  A wrong code is not an error.  For every well-formed password (6    *)
(* digits, or 8 digits not starting with '0') Authenticate returns a nil   *)
(* error, be the code accepted, wrong, expired or replayed; an error is    *)
(* returned only for a password that is not well-formed; and true is never *)
(* returned together with an error.                                        *)
(***************************************************************************)
C6_WrongCodeIsNoError ==
  LastIsAuthenticate =>
    /\ WellFormed(last.password) => last.err = Nil
    /\ last.err # Nil => ~WellFormed(last.password)
    /\ ~(last.ok /\ last.err # Nil)

\* an 8-digit code the object does not hold is rejected without an error
C6_Witness ==
  /\ LastIsScratch
  /\ WellFormed(last.password)
  /\ Count(otp0.ScratchCodes, LastScratchCode) = 0
  /\ ~last.ok /\ last.err = Nil

(***************************************************************************)
(* C7  Garbage-collection bound.  In the state an accepted TOTP            *)
(* Authenticate call leaves, UsedCodes holds no entry below                *)
(* currentStep - WindowSize/2, currentStep being the step of the clock     *)
(* when GC ran, whatever UsedCodes held before the call.                   *)
(***************************************************************************)
C7_GarbageCollectionBound ==
  LastAcceptedTotp =>
    \A i \in 1..Len(otp.UsedCodes) :
      otp.UsedCodes[i] >= last.tgc - (otp.WindowSize \div 2)

\* the call found a stale entry in UsedCodes, and the clock moved on to the
\* next step before GC read it
C7_Witness ==
  /\ LastAcceptedTotp
  /\ \E i \in 1..Len(last.pre.UsedCodes) :
       last.pre.UsedCodes[i] < last.tgc - (otp.WindowSize \div 2)
  /\ last.tgc > last.t0

\* the last call ran garbage collection (GC, Save, an accepted TOTP code)
LastRanGC == last.tgc # NoStep

(***************************************************************************)
(* C8  Size bound of the replay guard.  For an object that starts with an  *)
(* empty UsedCodes and a window size w >= 0, under a clock that does not   *)
(* run backwards, UsedCodes never holds a step twice and, after each       *)
(* garbage collection, holds at most w + 1 entries.                        *)
(***************************************************************************)
C8_ReplayGuardSize ==
  (otp0.UsedCodes = <<>> /\ otp0.WindowSize >= 0) =>
    /\ \A i, j \in 1..Len(otp.UsedCodes) :
         otp.UsedCodes[i] = otp.UsedCodes[j] => i = j
    /\ LastRanGC => Len(otp.UsedCodes) <= otp.WindowSize + 1

\* after a garbage collection that dropped an accepted step, UsedCodes holds
\* as many entries as the bound allows
C8_Witness ==
  /\ otp0.UsedCodes = <<>>
  /\ LastRanGC
  /\ Len(otp.UsedCodes) = otp.WindowSize + 1
  /\ Cardinality(accepted) > Len(otp.UsedCodes)

(***************************************************************************)
(* C9  InvalidSecret is reported to the caller.  When the secret is no     *)
(* base-32 text, ComputeCode fails with ErrInvalidSecret, and Authenticate *)
(* with a 6-digit password returns an error, not (false, nil).             *)
(***************************************************************************)
C9_InvalidSecretIsReported ==
  /\ \A s \in Secrets :
       Base32Decode(s).err # Nil =>
         \A t \in Challenges : ComputeCode(s, t).err = ErrInvalidSecret
  /\ ( /\ LastIsAuthenticate
       /\ AllDigits(last.password) /\ Len(last.password) = 6
       /\ Base32Decode(last.pre.Secret).err # Nil )
     => last.err # Nil

\* the clock values from now on
LaterClocks == {now + n * TickSeconds : n \in 0..MaxTicks}

(***************************************************************************)
(* C10  Persistence round trip.  Load of what Save returned yields an      *)
(* object with the Secret, WindowSize, UsedCodes and ScratchCodes of the   *)
(* object as Save left it, and at every later clock value it answers each  *)
(* password as the object before Save would: a step rejected as used and a *)
(* scratch code consumed before Save are still rejected.                   *)
(***************************************************************************)
C10_SaveLoadRoundTrip ==
  last.op = "Load" =>
    /\ otp.Secret = last.saved.Secret
    /\ otp.WindowSize = last.saved.WindowSize
    /\ otp.UsedCodes = last.saved.UsedCodes
    /\ otp.ScratchCodes = last.saved.ScratchCodes
    /\ \A unix \in LaterClocks, p \in Passwords :
         LET before == AuthenticateCall(last.pre, p, unix, unix)
             after == AuthenticateCall(otp, p, unix, unix)
         IN after.ok = before.ok /\ after.err = before.err

\* an object with a used step and a consumed scratch code is loaded back,
\* Save having dropped a stale step
C10_Witness ==
  /\ last.op = "Load"
  /\ otp.UsedCodes # <<>>
  /\ otp.UsedCodes # last.pre.UsedCodes
  /\ accepted # {}
  /\ consumed[11112222] = 1

\* the decimal texts of the object's scratch codes
MintedPasswords == {Itoa(otp.ScratchCodes[i]) : i \in 1..Len(otp.ScratchCodes)}

(***************************************************************************)
(* C12  New.  New(n) returns an object with window size 5, an empty        *)
(* UsedCodes and exactly n scratch codes, each an integer of 10000000 to   *)
(* 99999999, 8 digits in decimal of which the first is not '0'; and        *)
(* Authenticate takes each of these codes, typed in decimal, down the      *)
(* scratch-code path, not the TOTP path and not to ErrInvalidCode.         *)
(***************************************************************************)
C12_NewMintsScratchCodes ==
  /\ last.op = "New" =>
       /\ otp = last.result
       /\ otp.WindowSize = 5
       /\ otp.UsedCodes = <<>>
       /\ Len(otp.ScratchCodes) = last.args[1]
       /\ \A i \in 1..Len(otp.ScratchCodes) :
            /\ otp.ScratchCodes[i] >= 10000000
            /\ otp.ScratchCodes[i] <= 99999999
  /\ \A p \in MintedPasswords :
       /\ Len(p) = 8 /\ p[1] # "0"
       /\ AuthenticateCall(otp, p, now, now).path = "scratch"
       /\ AuthenticateCall(otp, p, now, now).err = Nil
  /\ last.op = "Authenticate" =>
       last.result.path = "scratch" /\ last.result.err = Nil

\* the least code New can mint, one of as many codes as New was asked for,
\* has been typed and has taken the scratch-code path
C12_Witness ==
  /\ last.op = "Authenticate"
  /\ last.args[1] = Itoa(10000000)
  /\ Len(last.pre.ScratchCodes) = MaxScratchCodes
  /\ \E i \in 1..Len(last.pre.ScratchCodes) :
       last.pre.ScratchCodes[i] = 99999999
  /\ last.result.path = "scratch" /\ last.result.ok

\* the texts of the URI template
UriHead == <<"o", "t", "p", "a", "u", "t", "h", ":", "/", "/", "t", "o", "t", "p", "/">>

SecretParam == <<"s", "e", "c", "r", "e", "t", "=">>

IssuerParam == <<"i", "s", "s", "u", "e", "r", "=">>

\* the issuers of the model that are not plain text, and what the query
\* holds for each
SpacedIssuer == <<"M", "y", " ", "C", "o">>

EscapedIssuers ==
  (SpacedIssuer :> <<"M", "y", "+", "C", "o">>)
    @@ (<<"R", "&", "D">> :> <<"R", "%", "2", "6", "D">>)

\* the URI as the template has it, the issuer and the secret written as
\* they are
TemplateURI(user, issuer, secret) ==
  IF issuer = <<>>
    THEN UriHead \o user \o <<"?">> \o SecretParam \o secret
  ELSE UriHead \o issuer \o <<":">> \o user \o <<"?">> \o IssuerParam
         \o issuer \o <<"&">> \o SecretParam \o secret

\* the text is made of letters, digits and - _ . ~ only
IsPlainText(str) ==
  \A i \in 1..Len(str) :
    \/ \E j \in 1..26 : str[i] = UpperChars[j] \/ str[i] = LowerChars[j]
    \/ \E j \in 1..10 : str[i] = DigitChars[j]
    \/ str[i] \in {"-", "_", ".", "~"}

\* the text t is found in the text str
Contains(str, t) ==
  \E i \in 1..(Len(str) - Len(t) + 1) : SubSeq(str, i, i + Len(t) - 1) = t

\* the text str begins with the text t
StartsWith(str, t) == Len(str) >= Len(t) /\ SubSeq(str, 1, Len(t)) = t

\* the text str ends with the text t
EndsWith(str, t) ==
  Len(str) >= Len(t) /\ SubSeq(str, Len(str) - Len(t) + 1, Len(str)) = t

LastIsProvisionURI == last.op = "ProvisionURI"

(***************************************************************************)
(* C13  ProvisionURI, as claimed: the URI is                               *)
(* otpauth://totp/<user>?secret=<secret> when the issuer is empty and      *)
(* otpauth://totp/<issuer>:<user>?issuer=<issuer>&secret=<secret>          *)
(* otherwise, and the call changes nothing of the object.                  *)
(***************************************************************************)
C13_ProvisionURIIsTemplate ==
  LastIsProvisionURI =>
    /\ last.result = TemplateURI(last.args[1], last.args[2], otp.Secret)
    /\ otp = last.pre

(***************************************************************************)
(* C13  ProvisionURI, as the code has it: the URI is that of the template  *)
(* when issuer and secret are made of letters, digits and - _ . ~ only;    *)
(* in the query the issuer and the secret are percent-encoded (a space as  *)
(* '+', '&' as %26), while the path holds issuer and user as they are:     *)
(* issuer "My Co" gives otpauth://totp/My Co:test?issuer=My+Co&secret=x.   *)
(* The issuer prefix of the path and the issuer parameter appear together  *)
(* or not at all, issuer comes before secret, and the call changes nothing *)
(* of the object.                                                          *)
(***************************************************************************)
C13_ProvisionURIEscapesQuery ==
  LastIsProvisionURI =>
    LET user == last.args[1]
        issuer == last.args[2]
        uri == last.result
    IN /\ otp = last.pre
       /\ (IsPlainText(issuer) /\ IsPlainText(otp.Secret))
            => uri = TemplateURI(user, issuer, otp.Secret)
       /\ (issuer \in DOMAIN EscapedIssuers /\ IsPlainText(otp.Secret))
            => uri = UriHead \o issuer \o <<":">> \o user \o <<"?">>
                       \o IssuerParam \o EscapedIssuers[issuer] \o <<"&">>
                       \o SecretParam \o otp.Secret
       /\ issuer = <<>> =>
            /\ StartsWith(uri, UriHead \o user \o <<"?">> \o SecretParam)
            /\ ~Contains(uri, IssuerParam)
       /\ issuer # <<>> =>
            /\ StartsWith(uri, UriHead \o issuer \o <<":">> \o user
                                 \o <<"?">> \o IssuerParam)
            /\ Contains(uri, <<"&">> \o SecretParam)
       /\ IsPlainText(otp.Secret) => EndsWith(uri, SecretParam \o otp.Secret)

\* the URI of an object New made, for an issuer with a space in it
C13_Witness ==
  /\ LastIsProvisionURI
  /\ last.args[2] = SpacedIssuer
  /\ otp.Secret = TestSecret
  /\ EndsWith(last.result,
              IssuerParam \o EscapedIssuers[SpacedIssuer] \o <<"&">> \o SecretParam
                \o TestSecret)

\* what ComputeCode returns for the secrets and challenges it is called
\* with, as a table that depends on no state
VectorCodes ==
  [s \in Secrets |-> [t \in VectorChallenges |-> ComputeCode(s, t)]]

LastIsComputeCode == last.op = "ComputeCode"

(***************************************************************************)
(* C14  ComputeCode is a pure function of (secret, step): whatever the     *)
(* object holds and whatever the clock shows, each call returns what the   *)
(* arguments alone determine, and for the secret 2SH3V3GDW7ZNMGYE it       *)
(* returns 293240 for step 1, 932068 for step 5 and, as six characters     *)
(* with a leading zero, 050548 for step 10000.                             *)
(***************************************************************************)
C14_ComputeCodeVectors ==
  LastIsComputeCode =>
    LET secret == last.args[1]
        challenge == last.args[2]
    IN /\ last.result = VectorCodes[secret][challenge]
       /\ otp = last.pre
       /\ secret = TestSecret =>
            /\ last.result.err = Nil
            /\ Len(last.result.code) = 6
            /\ challenge = 1 => last.result.code = <<"2", "9", "3", "2", "4", "0">>
            /\ challenge = 5 => last.result.code = <<"9", "3", "2", "0", "6", "8">>
            /\ challenge = 10000 => last.result.code = <<"0", "5", "0", "5", "4", "8">>

\* the zero-padded code has been computed after the clock has moved on, next
\* to an object with another secret and steps in its UsedCodes
C14_Witness ==
  /\ LastIsComputeCode
  /\ last.args = <<TestSecret, 10000>>
  /\ last.result.code = <<"0", "5", "0", "5", "4", "8">>
  /\ now > StartTime
  /\ otp.Secret = TwinSecret /\ otp.UsedCodes # <<>>

\* the last call took the TOTP path, on an object with a window size >= 0
LastIsTotp ==
  LastIsAuthenticate /\ last.path = "totp" /\ last.pre.WindowSize >= 0

\* the steps from t0 - w/2 to t0 + w/2 for the last call's clock step t0 and
\* the window size w of the object it was made on
LastWindow ==
  (last.t0 - (last.pre.WindowSize \div 2))
    ..(last.t0 + (last.pre.WindowSize \div 2))

\* the steps of that window whose code is the last call's password
LastMatching ==
  {t \in LastWindow : ComputedCodes[last.pre.Secret][t].code = last.password}

\* the least of a set of steps
Lowest(steps) == CHOOSE t \in steps : \A u \in steps : t <= u

(***************************************************************************)
(* C15  The TOTP window, as claimed: the search covers the steps from      *)
(* currentStep - windowSize/2 to currentStep + windowSize/2, the division  *)
(* truncating, and for an odd windowSize it does not reach equally far     *)
(* below and above currentStep.                                            *)
(***************************************************************************)
C15_OddWindowIsAsymmetric ==
  LastIsTotp =>
    /\ last.step # NoStep <=> LastMatching # {}
    /\ last.pre.WindowSize % 2 = 1 =>
         last.t0 - Lowest(LastWindow)
           # (CHOOSE t \in LastWindow : \A u \in LastWindow : u <= t) - last.t0

(***************************************************************************)
(* C15  The TOTP window, as the code has it: the search covers exactly the *)
(* steps from currentStep - windowSize/2 to currentStep + windowSize/2,    *)
(* the division truncating: a password is matched if and only if it is the *)
(* code of one of these steps.  The window reaches windowSize/2 steps      *)
(* below and as many above currentStep, for odd and even windowSize alike: *)
(* it holds 2*(windowSize/2) + 1 steps, windowSize of them when that is    *)
(* odd.                                                                    *)
(***************************************************************************)
C15_WindowIsSymmetric ==
  LastIsTotp =>
    LET w == last.pre.WindowSize
        codes == ComputedCodes[last.pre.Secret]
    IN /\ last.step # NoStep <=> LastMatching # {}
       /\ last.step # NoStep =>
            /\ last.step >= last.t0 - (w \div 2)
            /\ last.step <= last.t0 + (w \div 2)
            /\ codes[last.step].code = last.password
       /\ last.step = NoStep =>
            /\ codes[last.t0 - (w \div 2)].code # last.password
            /\ codes[last.t0 + (w \div 2)].code # last.password
       /\ Cardinality(LastWindow) = 2 * (w \div 2) + 1
       /\ w % 2 = 1 => Cardinality(LastWindow) = w

\* with the odd window size 5, the code of the step two above the clock's
\* is matched, after that of the step two below the clock's was
C15_Witness ==
  /\ LastIsTotp /\ last.ok
  /\ last.pre.WindowSize = 5
  /\ last.step = last.t0 + 2
  /\ \E t \in accepted : t = CurrentStep(StartTime) - 2

(***************************************************************************)
(* C16  First match.  The TOTP path decides on the lowest step t of the    *)
(* window whose code is the password.  If t is in UsedCodes the call       *)
(* returns (false, nil) and changes nothing, even when a higher step of    *)
(* the window has the same code and is not used; if t is not in UsedCodes  *)
(* the call is accepted and it is t that is appended to UsedCodes (before  *)
(* the garbage collection of the call), not a higher matching step.        *)
(***************************************************************************)
C16_FirstMatchDecides ==
  (LastIsTotp /\ LastMatching # {}) =>
    LET t == Lowest(LastMatching)
        o == last.pre
    IN /\ last.step = t
       /\ last.err = Nil
       /\ Count(o.UsedCodes, t) > 0 => (~last.ok /\ otp = o)
       /\ Count(o.UsedCodes, t) = 0 =>
            /\ last.ok
            /\ otp.UsedCodes
                 = SelectSeq(Append(o.UsedCodes, t),
                             LAMBDA u : u >= last.tgc - (o.WindowSize \div 2))

\* the password is the code of two steps of the window; the lower is used,
\* the higher is not, and the call is rejected
C16_Witness ==
  /\ LastIsTotp /\ ~last.ok
  /\ Cardinality(LastMatching) = 2
  /\ last.step = Lowest(LastMatching)
  /\ \A t \in LastMatching \ {last.step} : Count(last.pre.UsedCodes, t) = 0

(***************************************************************************)
(* C17  Frame of Authenticate.  A call that returns false leaves Secret,   *)
(* WindowSize, UsedCodes and ScratchCodes as they were and runs no garbage *)
(* collection.  An accepted TOTP call leaves ScratchCodes as it was.  An   *)
(* accepted scratch call leaves UsedCodes as it was and removes exactly    *)
(* one entry of ScratchCodes, one that is the code typed, the others       *)
(* staying in their order.                                                 *)
(***************************************************************************)
C17_AuthenticateFrame ==
  LastIsAuthenticate =>
    LET o == last.pre
    IN /\ otp.Secret = o.Secret /\ otp.WindowSize = o.WindowSize
       /\ ~last.ok => (otp = o /\ last.tgc = NoStep)
       /\ (last.ok /\ last.path = "totp") => otp.ScratchCodes = o.ScratchCodes
       /\ (last.ok /\ last.path = "scratch") =>
            /\ otp.UsedCodes = o.UsedCodes
            /\ Len(otp.ScratchCodes) = Len(o.ScratchCodes) - 1
            /\ \E i \in 1..Len(o.ScratchCodes) :
                 /\ o.ScratchCodes[i] = LastScratchCode
                 /\ otp.ScratchCodes
                      = SubSeq(o.ScratchCodes, 1, i - 1)
                          \o SubSeq(o.ScratchCodes, i + 1, Len(o.ScratchCodes))

\* a replay is rejected, and the stale steps in UsedCodes, which a garbage
\* collection would drop, are still there
C17_Witness ==
  /\ LastIsTotp /\ ~last.ok /\ last.step # NoStep
  /\ \E i \in 1..Len(otp.UsedCodes) :
       otp.UsedCodes[i] < last.t0 - (otp.WindowSize \div 2)

\* the last call was GC or Save, which starts with GC
LastIsGC == last.op = "GC" \/ last.op = "Save"

(***************************************************************************)
(* C18  GC on its own.  A GC call (also the one Save makes) takes the      *)
(* lower bound currentStep - windowSize/2 from the clock at the time of    *)
(* the call and removes exactly the UsedCodes entries below it: every      *)
(* entry at or above the bound, also one above the window's upper bound,   *)
(* stays, in order; Secret, WindowSize and ScratchCodes are untouched; and *)
(* a second GC at the same clock value changes nothing.                    *)
(***************************************************************************)
C18_GCRemovesExactlyTheStale ==
  [][ (last'.op = "GC" \/ last'.op = "Save") =>
        LET bound == (now' \div StepSeconds) - (otp.WindowSize \div 2)
        IN /\ otp'.UsedCodes = SelectSeq(otp.UsedCodes, LAMBDA u : u >= bound)
           /\ otp'.Secret = otp.Secret
           /\ otp'.WindowSize = otp.WindowSize
           /\ otp'.ScratchCodes = otp.ScratchCodes
           /\ now' = now
           /\ LastIsGC => otp' = otp ]_vars

\* a second GC has left alone what the first had kept: the step at the lower
\* bound and a step above the upper bound, the stale steps being gone
C18_Witness ==
  /\ last.op = "GC"
  /\ last.pre = otp
  /\ otp0.UsedCodes = <<12, 2, 6, 2>>
  /\ otp.UsedCodes = <<12, 6>>
  /\ otp.WindowSize = 0
  /\ CurrentStep(now) = 6

(***************************************************************************)
(* C19  A step is accepted at most once.  Over any sequence of             *)
(* Authenticate, GC and Save calls and clock advances, with a clock that   *)
(* does not run backwards and an unchanged window size, no call removes    *)
(* from UsedCodes a step that is inside the window of the clock after the  *)
(* call, and no accepted TOTP call is accepted for a step that an earlier  *)
(* call was accepted for.                                                  *)
(***************************************************************************)
C19_StepAcceptedOnce ==
  [][ /\ (last'.op = "Authenticate" /\ last'.ok /\ last'.path = "totp")
           => last'.step \notin accepted
      /\ \A i \in 1..Len(otp.UsedCodes) :
           LET u == otp.UsedCodes[i]
               t0 == now' \div StepSeconds
           IN (u >= t0 - (otp.WindowSize \div 2)
                 /\ u <= t0 + (otp.WindowSize \div 2))
                => Count(otp'.UsedCodes, u) > 0 ]_vars

\* the code of an accepted step that has since been removed from UsedCodes
\* is typed again, and is rejected
C19_Witness ==
  /\ LastIsTotp /\ ~last.ok
  /\ \E t \in accepted :
       /\ last.password = ComputedCodes[otp.Secret][t].code
       /\ Count(otp.UsedCodes, t) = 0
  /\ Cardinality(accepted) >= 2

(***************************************************************************)
(* C20  The accepted step in UsedCodes, as claimed: when an accepted TOTP  *)
(* call returns, its step is in UsedCodes and lies within the window of    *)
(* the call, also when the clock moves on to the next step between the     *)
(* call's reading of it and the reading of its garbage collection.         *)
(***************************************************************************)
C20_AcceptedStepIsMember ==
  LastAcceptedTotp =>
    /\ Count(otp.UsedCodes, last.step) > 0
    /\ last.step \in LastWindow

(***************************************************************************)
(* C20  The accepted step in UsedCodes, as the code has it: the step of an *)
(* accepted TOTP call lies within the window of the call, and when the     *)
(* call returns it is in UsedCodes, once, unless the clock has moved on    *)
(* between the call's reading of it and the reading of its garbage         *)
(* collection so far that the step is below the new lower bound: then it   *)
(* has been removed again, and is below the window of every later call.    *)
(***************************************************************************)
C20_AcceptedStepIsMemberUnlessStale ==
  LastAcceptedTotp =>
    LET bound == last.tgc - (otp.WindowSize \div 2)
    IN /\ last.step \in LastWindow
       /\ last.tgc >= last.t0
       /\ last.tgc = last.t0 => Count(otp.UsedCodes, last.step) = 1
       /\ last.step >= bound => Count(otp.UsedCodes, last.step) = 1
       /\ last.step < bound => Count(otp.UsedCodes, last.step) = 0
       /\ bound <= CurrentStep(now) - (otp.WindowSize \div 2)

\* the clock moved on between the two readings, and the accepted step, the
\* lowest of the call's window, is not in UsedCodes when the call returns
C20_Witness ==
  /\ LastAcceptedTotp
  /\ last.tgc > last.t0
  /\ last.step = Lowest(LastWindow)
  /\ Count(otp.UsedCodes, last.step) = 0

\* both goroutines' calls have returned true for the same password
BothAccepted ==
  /\ \A g \in Goroutines : calls[g].pc = "done" /\ calls[g].ok
  /\ \A g, h \in Goroutines : calls[g].password = calls[h].password

\* one of the two calls began while the other was under way
Overlapped == \E g \in Goroutines : calls[g].overlap

(***************************************************************************)
(* C11  Concurrent Authenticate, as claimed: when the calls on one object  *)
(* are made one after the other, two submissions of the same TOTP code of  *)
(* the window, or of the same scratch code, are not both accepted; only    *)
(* calls that interleave can both be accepted.                             *)
(***************************************************************************)
C11_OnlyInterleavedCallsBothAccept ==
  BothAccepted => Overlapped

(***************************************************************************)
(* C11  Concurrent Authenticate, as the code has it: when the calls on one *)
(* object are made one after the other, two submissions of the same TOTP   *)
(* code of the window, or of a scratch code that the object holds once,    *)
(* are not both accepted, and no call panics; a scratch code the object    *)
(* holds twice is accepted twice.  Without a lock, the check of UsedCodes  *)
(* or ScratchCodes and the later update are separate steps, and two calls  *)
(* that interleave can both be accepted.                                   *)
(***************************************************************************)
C11_SerializedCallsAcceptOnce ==
  /\ (BothAccepted /\ ~Overlapped) =>
       \A g \in Goroutines :
         /\ IsScratchForm(calls[g].password)
         /\ Count(otp0.ScratchCodes, calls[g].code) >= 2
  /\ (\E g \in Goroutines : calls[g].pc = "panic") => Overlapped
  /\ \A g \in Goroutines :
       (calls[g].pc = "done" /\ ~Overlapped /\ calls[g].ok
          /\ IsTotpForm(calls[g].password))
         => Count(otp.UsedCodes, calls[g].t) = 1

\* two interleaved calls with the same TOTP code have both returned true
C11_Witness ==
  /\ BothAccepted
  /\ Overlapped
  /\ \A g \in Goroutines : IsTotpForm(calls[g].password)

====
